---- MODULE Spec2Model ----
(***************************************************************************)
(* A model of queue-run's invocation engine: queue jobs                    *)
(* (queue/handler.ts), WebSocket authentication and messages (ws handler), *)
(* the API Gateway adapter asFetchRequest, the builder's development       *)
(* loaders (loadFunction.ts, moduleLoader.ts), and of the command line     *)
(* tools: the dev server's builds, deployStack, deployLambda's check of    *)
(* the project name, and url's replaceBracket.                             *)
(*                                                                         *)
(* Every invocation is a cooperative task.  The outer async function       *)
(* (handleQueuedJob, handleRoute) awaits a Promise.race between the inner  *)
(* task (runWithMiddleware) and the signal's abort event.  Time is kept    *)
(* per invocation, in milliseconds since the invocation started.           *)
(***************************************************************************)
EXTENDS Integers, Sequences, FiniteSets, TLC

\* ------------------------------------------------------------------ bounds

\* Longest body / text, in bytes, that the inputs are drawn from.
MaxLen == 2

\* ------------------------------------------------------- program constants

\* ms("30s"), the remaining time the dev server hands to handleQueuedJob.
DevRemainingTime == 30000

\* ------------------------------------------------------------- input sets

Invocations == {1, 2}

\* metadata.user / userId: "null" stands for null.
NoUser == "null"
Users == {NoUser, "A", "B"}

\* queue.timeout, in seconds (the manifest's value for the queue).
QueueTimeouts == {0, 5}

\* remainingTime, in milliseconds, as the caller provides it.
RemainingTimes == {0 - 1000, 0, 3000, DevRemainingTime}

\* What the handler (module.default) does once called: returns or throws
\* after t milliseconds, or never settles.
HandlerPlans ==
  { [out |-> "return", t |-> 1000],
    [out |-> "return", t |-> 6000],
    [out |-> "throw", t |-> 1000],
    [out |-> "hang", t |-> 0] }

NoPlan == [out |-> "none", t |-> 0]

\* What a middleware hook does when the code reaches it: it is not defined,
\* it returns, or it throws.
HookOutcomes == {"absent", "return", "throw"}

\* The queue middleware of a job: one behaviour per hook.
QueueHooks ==
  [onJobStarted : HookOutcomes, onJobFinished : HookOutcomes,
   onError : HookOutcomes, onMessageReceived : {"absent"},
   onMessageSent : {"absent"}]

\* The socket middleware of a route.
SocketHooks ==
  [onJobStarted : {"absent"}, onJobFinished : {"absent"},
   onError : HookOutcomes, onMessageReceived : HookOutcomes,
   onMessageSent : HookOutcomes]

NoHooks ==
  [onJobStarted |-> "absent", onJobFinished |-> "absent", onError |-> "absent",
   onMessageReceived |-> "absent", onMessageSent |-> "absent"]

\* The middleware loadModule yields when the queue module exports none of its
\* own: logJobStarted, logJobFinished, logError, which return.
DefaultHooks ==
  [onJobStarted |-> "return", onJobFinished |-> "return", onError |-> "return",
   onMessageReceived |-> "absent", onMessageSent |-> "absent"]

Min(a, b) == IF a <= b THEN a ELSE b

\* ---------------------------------------------------------- bytes and text

\* Text is a sequence of character codes (ASCII, so also its UTF-8 bytes);
\* a Buffer is a sequence of bytes.
Chars == {72, 105}
Bytes == {72, 255}

RECURSIVE SeqsUpTo(_, _)
SeqsUpTo(S, n) ==
  IF n = 0 THEN {<< >>}
  ELSE LET shorter == SeqsUpTo(S, n - 1) IN
       shorter \cup {Append(q, x) : q \in shorter, x \in S}

Texts == SeqsUpTo(Chars, MaxLen)
Buffers == SeqsUpTo(Bytes, MaxLen)

\* Buffer.toString("base64"): the code of the n-th letter of the alphabet
\* A-Z a-z 0-9 + /.
Base64Char(n) ==
  IF n < 26 THEN 65 + n
  ELSE IF n < 52 THEN 97 + (n - 26)
  ELSE IF n < 62 THEN 48 + (n - 52)
  ELSE IF n = 62 THEN 43 ELSE 47

\* Buffer.toString("base64"): three bytes become four letters, the last
\* group is padded with "=" (61).
RECURSIVE Base64(_)
Base64(b) ==
  IF Len(b) = 0 THEN << >>
  ELSE IF Len(b) = 1 THEN
    << Base64Char(b[1] \div 4), Base64Char((b[1] % 4) * 16), 61, 61 >>
  ELSE IF Len(b) = 2 THEN
    << Base64Char(b[1] \div 4),
       Base64Char((b[1] % 4) * 16 + b[2] \div 16),
       Base64Char((b[2] % 16) * 4), 61 >>
  ELSE
    << Base64Char(b[1] \div 4),
       Base64Char((b[1] % 4) * 16 + b[2] \div 16),
       Base64Char((b[2] % 16) * 4 + b[3] \div 64),
       Base64Char(b[3] % 64) >> \o Base64(SubSeq(b, 4, Len(b)))

\* Buffer.from(text, "base64"): four letters become three bytes, fewer when
\* the group is padded.
RECURSIVE Base64Decode(_)
Base64Decode(c) ==
  LET Index(x) == IF x >= 65 /\ x <= 90 THEN x - 65
                  ELSE IF x >= 97 /\ x <= 122 THEN x - 71
                  ELSE IF x >= 48 /\ x <= 57 THEN x + 4
                  ELSE IF x = 43 THEN 62 ELSE 63
  IN  IF Len(c) < 4 THEN << >>
      ELSE << Index(c[1]) * 4 + Index(c[2]) \div 16 >>
           \o (IF c[3] = 61 THEN << >>
               ELSE << (Index(c[2]) % 16) * 16 + Index(c[3]) \div 4 >>
                    \o (IF c[4] = 61 THEN << >>
                        ELSE << (Index(c[3]) % 4) * 64 + Index(c[4]) >>))
           \o Base64Decode(SubSeq(c, 5, Len(c)))

\* ------------------------------------------------------------------- JSON

\* A JSON value: a number, a boolean, a string, an array or an object (keys
\* and items side by side, in insertion order).
JNum(n) == [t |-> "number", n |-> n, s |-> << >>, keys |-> << >>, items |-> << >>]
JBool(v) ==
  [t |-> "boolean", n |-> IF v THEN 1 ELSE 0, s |-> << >>, keys |-> << >>,
   items |-> << >>]
JStr(text) == [t |-> "string", n |-> 0, s |-> text, keys |-> << >>, items |-> << >>]
JArr(items) == [t |-> "array", n |-> 0, s |-> << >>, keys |-> << >>, items |-> items]
JObj(keys, items) ==
  [t |-> "object", n |-> 0, s |-> << >>, keys |-> keys, items |-> items]

\* The values with nothing inside: null, and what JSON has no text for,
\* undefined and NaN.
JOther(t) == [t |-> t, n |-> 0, s |-> << >>, keys |-> << >>, items |-> << >>]

\* A conversion that writes only the last digit of a number.
LastDigit(n) == << 48 + (n % 10) >>

\* The decimal digits of a natural number.
RECURSIVE Digits(_)
Digits(n) == IF n < 10 THEN << 48 + n >> ELSE Append(Digits(n \div 10), 48 + (n % 10))

\* JSON.stringify of a string: quoted, with " and \ escaped.
RECURSIVE Escaped(_)
Escaped(text) ==
  IF text = << >> THEN << >>
  ELSE (IF Head(text) \in {34, 92} THEN << 92, Head(text) >> ELSE << Head(text) >>)
       \o Escaped(Tail(text))

Quoted(text) == << 34 >> \o Escaped(text) \o << 34 >>

\* JSON.stringify(value), with no indentation.
RECURSIVE JSONStringify(_)
RECURSIVE StringifyItems(_, _, _)
JSONStringify(j) ==
  CASE j.t = "number" ->
         IF j.n < 0 THEN << 45 >> \o Digits(0 - j.n) ELSE Digits(j.n)
    [] j.t = "boolean" ->
         IF j.n = 1 THEN << 116, 114, 117, 101 >>
         ELSE << 102, 97, 108, 115, 101 >>
    [] j.t = "string" -> Quoted(j.s)
    [] j.t = "array" -> << 91 >> \o StringifyItems(<< >>, j.items, 1) \o << 93 >>
    [] j.t = "object" ->
         \* a property whose value is undefined is left out
         LET RECURSIVE Present(_)
             Present(k) ==
               IF k > Len(j.items) THEN << >>
               ELSE (IF j.items[k].t = "undefined" THEN << >> ELSE << k >>)
                    \o Present(k + 1)
             at == Present(1)
         IN  << 123 >>
             \o StringifyItems([m \in 1..Len(at) |-> j.keys[at[m]]],
                               [m \in 1..Len(at) |-> j.items[at[m]]], 1)
             \o << 125 >>
    \* null, and NaN and an undefined array item, which are written as null
    [] j.t \in {"null", "NaN", "undefined"} -> << 110, 117, 108, 108 >>

\* The items from the k-th on, comma separated, each after its key if any.
StringifyItems(keys, items, k) ==
  IF k > Len(items) THEN << >>
  ELSE (IF k > 1 THEN << 44 >> ELSE << >>)
       \o (IF keys = << >> THEN << >> ELSE Quoted(keys[k]) \o << 58 >>)
       \o JSONStringify(items[k])
       \o StringifyItems(keys, items, k + 1)

\* The plain values a handler returns: {"id":123}, [1,"Hi"],
\* {"Hi":[-7,"\"\\",null]}, {}, 7, true.
JsonValues ==
  { JObj(<< << 105, 100 >> >>, << JNum(123) >>),
    JArr(<< JNum(1), JStr(<< 72, 105 >>) >>),
    JObj(<< << 72, 105 >> >>,
         << JArr(<< JNum(-7), JStr(<< 34, 92 >>), JOther("null") >>) >>),
    JObj(<< >>, << >>),
    JNum(7),
    JBool(TRUE) }

\* Plain values that JSON has no exact text for: NaN, { id: 7, Hi: undefined }
\* and [undefined].
LossyValues ==
  { JOther("NaN"),
    JObj(<< << 105, 100 >>, << 72, 105 >> >>, << JNum(7), JOther("undefined") >>),
    JArr(<< JOther("undefined") >>) }

\* JSON.parse(text) of a text without white space.
JSONParse(text) ==
  LET RECURSIVE ParseString(_, _)
      RECURSIVE ParseDigits(_, _)
      RECURSIVE ParseValue(_)
      RECURSIVE ParseElements(_, _)
      RECURSIVE ParseMembers(_, _, _)
      \* after the opening quote
      ParseString(q, acc) ==
        IF q[1] = 34 THEN [v |-> acc, rest |-> Tail(q)]
        ELSE IF q[1] = 92
        THEN ParseString(SubSeq(q, 3, Len(q)), Append(acc, q[2]))
        ELSE ParseString(Tail(q), Append(acc, q[1]))
      ParseDigits(q, n) ==
        IF q # << >> /\ q[1] >= 48 /\ q[1] <= 57
        THEN ParseDigits(Tail(q), 10 * n + (q[1] - 48))
        ELSE [v |-> n, rest |-> q]
      ParseValue(q) ==
        CASE q[1] = 34 ->
               LET r == ParseString(Tail(q), << >>)
               IN  [v |-> JStr(r.v), rest |-> r.rest]
          [] q[1] = 91 ->
               IF q[2] = 93
               THEN [v |-> JArr(<< >>), rest |-> SubSeq(q, 3, Len(q))]
               ELSE ParseElements(Tail(q), << >>)
          [] q[1] = 123 ->
               IF q[2] = 125
               THEN [v |-> JObj(<< >>, << >>), rest |-> SubSeq(q, 3, Len(q))]
               ELSE ParseMembers(Tail(q), << >>, << >>)
          [] q[1] = 116 -> [v |-> JBool(TRUE), rest |-> SubSeq(q, 5, Len(q))]
          [] q[1] = 102 -> [v |-> JBool(FALSE), rest |-> SubSeq(q, 6, Len(q))]
          [] q[1] = 110 -> [v |-> JOther("null"), rest |-> SubSeq(q, 5, Len(q))]
          [] q[1] = 45 ->
               LET r == ParseDigits(Tail(q), 0)
               IN  [v |-> JNum(0 - r.v), rest |-> r.rest]
          [] OTHER ->
               LET r == ParseDigits(q, 0)
               IN  [v |-> JNum(r.v), rest |-> r.rest]
      \* after "[" or ","
      ParseElements(q, items) ==
        LET r == ParseValue(q)
        IN  IF r.rest[1] = 44
            THEN ParseElements(Tail(r.rest), Append(items, r.v))
            ELSE [v |-> JArr(Append(items, r.v)), rest |-> Tail(r.rest)]
      \* after "{" or ",": a quoted key, ":" and a value
      ParseMembers(q, keys, items) ==
        LET k == ParseString(Tail(q), << >>)
            r == ParseValue(Tail(k.rest))
        IN  IF r.rest[1] = 44
            THEN ParseMembers(Tail(r.rest), Append(keys, k.v),
                              Append(items, r.v))
            ELSE [v |-> JObj(Append(keys, k.v), Append(items, r.v)),
                  rest |-> Tail(r.rest)]
  IN  ParseValue(text).v

NoJson == JNum(0)

\* ----------------------------------------------------------------- values

\* A JavaScript value a handler returns or throws.  type is one of
\* Response, string, Buffer, null, undefined, object (a plain value), Error
\* (text is its message).
Value(type, status, contentType, body, json) ==
  [type |-> type, status |-> status, contentType |-> contentType,
   body |-> body, json |-> json]

NoValue == Value("none", 0, "", << >>, NoJson)

\* HTTP statuses a handler answers with.
Statuses == {200, 204, 401, 403, 422, 500}

\* Content-Type headers of the Responses handlers build ("": no header).
ContentTypes == {"", "text/html"}

Responses ==
  { Value("Response", st, ct, b, NoJson) :
      st \in Statuses, ct \in ContentTypes, b \in Buffers }

\* Any Response, string, Buffer, null, undefined or plain value.
ReturnValues ==
  Responses
  \cup { Value("string", 0, "", t, NoJson) : t \in Texts }
  \cup { Value("Buffer", 0, "", b, NoJson) : b \in Buffers }
  \cup { Value("null", 0, "", << >>, NoJson),
         Value("undefined", 0, "", << >>, NoJson) }
  \cup { Value("object", 0, "", << >>, j) : j \in JsonValues \cup LossyValues }

\* A Response, an Error with a message, or a string.
ThrownValues ==
  Responses
  \cup { Value("Error", 0, "", t, NoJson) : t \in Texts }
  \cup { Value("string", 0, "", t, NoJson) : t \in Texts }

\* What the entry point resolved to: the gateway's reply, a Buffer, or null.
NoReply ==
  [type |-> "none", statusCode |-> 0, contentType |-> "", body |-> << >>,
   bodyEncoding |-> ""]

\* ----------------------------------------------------------- authenticate

\* What an authenticate hook returns: null, undefined, or an object that
\* has an id (possibly the empty string) or has none.
AuthUser(type, hasId, id) == [type |-> type, hasId |-> hasId, id |-> id]

AuthUsers ==
  { AuthUser("null", FALSE, ""),
    AuthUser("undefined", FALSE, ""),
    AuthUser("object", FALSE, ""),
    AuthUser("object", TRUE, ""),
    AuthUser("object", TRUE, "A") }

\* "Forbidden"
Forbidden == << 70, 111, 114, 98, 105, 100, 100, 101, 110 >>

\* "Internal Server Error"
InternalServerError ==
  << 73, 110, 116, 101, 114, 110, 97, 108, 32, 83, 101, 114, 118, 101,
     114, 32, 69, 114, 114, 111, 114 >>

\* "Unauthorized"
Unauthorized == << 85, 110, 97, 117, 116, 104, 111, 114, 105, 122, 101, 100 >>

\* "Access Denied!"
AccessDenied ==
  << 65, 99, 99, 101, 115, 115, 32, 68, 101, 110, 105, 101, 100, 33 >>

\* What an authenticate hook throws: the Responses of the example
\* middleware (401, 403), or an Error.
AuthThrown ==
  { Value("Response", 401, "", Unauthorized, NoJson),
    Value("Response", 403, "", AccessDenied, NoJson),
    Value("Error", 0, "", << 72, 105 >>, NoJson) }

\* The common socket middleware: authenticate is absent, returns user or
\* throws thrown; onError is absent, returns or throws.
CommonMiddlewares ==
  { [authenticate |-> "absent", user |-> AuthUser("null", FALSE, ""),
     thrown |-> NoValue, onError |-> e] : e \in HookOutcomes }
  \cup { [authenticate |-> "return", user |-> u, thrown |-> NoValue,
          onError |-> e] : u \in AuthUsers, e \in HookOutcomes }
  \cup { [authenticate |-> "throw", user |-> AuthUser("null", FALSE, ""),
          thrown |-> t, onError |-> e] : t \in AuthThrown, e \in HookOutcomes }

NoCommonMiddleware ==
  [authenticate |-> "absent", user |-> AuthUser("null", FALSE, ""),
   thrown |-> NoValue, onError |-> "absent"]

NoAuthResult ==
  [how |-> "none", user |-> AuthUser("null", FALSE, ""), thrown |-> NoValue]

\* ------------------------------------------------ development: loadFunction

\* Most reloads of one function that are followed.
MaxReloads == 2

\* What a module may export under one name.  "empty" is the empty string,
\* "zero" the number 0, "string" and "number" are truthy ones.
ExportKinds ==
  {"undefined", "null", "function", "object", "array", "string", "empty",
   "number", "zero", "false"}

\* exports of the handler module as loadModule returns them; version counts
\* the edits of the source file, and a source that does not compile makes
\* loadModule throw.
Modules ==
  [handler : {"undefined", "function", "string"},
   default : {"undefined", "function", "string"},
   config : ExportKinds, compiles : BOOLEAN, version : {1}]

\* The edits that the reloads are drawn from.
SomeModules ==
  { [handler |-> "undefined", default |-> "function", config |-> "object",
     compiles |-> TRUE],
    [handler |-> "function", default |-> "undefined", config |-> "undefined",
     compiles |-> TRUE],
    [handler |-> "undefined", default |-> "undefined", config |-> "object",
     compiles |-> TRUE],
    [handler |-> "function", default |-> "undefined", config |-> "string",
     compiles |-> TRUE],
    [handler |-> "function", default |-> "undefined", config |-> "object",
     compiles |-> FALSE] }

\* A JavaScript value of the loaded exports: its kind and the version of the
\* source that made it.
NoExport == [kind |-> "undefined", version |-> 0]

NoFunction ==
  [pc |-> "unloaded", watch |-> FALSE,
   module |-> [handler |-> "undefined", default |-> "undefined",
               config |-> "undefined", compiles |-> TRUE, version |-> 0],
   loaded |-> [config |-> NoExport, handler |-> NoExport],
   born |-> [config |-> NoExport, handler |-> NoExport],
   returned |-> "none", reloads |-> 0, failure |-> "none"]

\* ----------------------------------------------- development: moduleLoader

\* Most change events that are followed.
MaxEvents == 3

\* Absolute paths are sequences of segments.  dirname is the project.
Dirname == << "app" >>

\* The files that a development session requires or has required.
Files ==
  { << "app", "index.js" >>, << "app", "api", "a.ts" >>,
    << "app", "addon.node" >>,
    << "app", "node_modules", "p.js" >>,
    << "app", "api", "node_modules", "q.js" >>,
    << "lib", "x.js" >>, << "lib", "y.js" >> }

\* What the tool itself required before moduleLoader installed its hooks:
\* its own code, linked from outside the project.
Preloaded == { << "lib", "x.js" >> }

NoLoader ==
  [installed |-> FALSE, onReload |-> FALSE, cache |-> Preloaded,
   sourceMaps |-> {}, watchers |-> {}, signal |-> 0, events |-> 0,
   reloads |-> 0, notified |-> << >>, evicted |-> {}, threw |-> 0]

\* ------------------------------------------------------------- dev server

\* Most newWorker calls, and most watcher events and most keys, followed.
MaxCalls == 3
MaxDevEvents == 3

\* A semaphore that lets two builds in.
TwoPermits == 1 + 1

\* part_006 line 36: new Sema(1).
BuildPermits == 1

\* isTTY: whether process.stdin is a terminal, a tty.ReadStream, the only
\* stream that has setRawMode (line 147).
NoDev == [isTTY |-> TRUE, sema |-> BuildPermits, calls |-> << >>,
          workers |-> << >>, events |-> 0, keys |-> 0]

\* ------------------------------------------------------------ deployStack

\* A StackStatus is its words: UPDATE_IN_PROGRESS is << "UPDATE", "IN",
\* "PROGRESS" >>; no words stand for a stack that findStack does not find.
NotFound == << >>

\* Most calls of deployStack followed, one after the other.
MaxDeploys == 2

\* The statuses CloudFormation reports for a stack.
StackStatuses ==
  { NotFound,
    << "CREATE", "COMPLETE" >>, << "CREATE", "IN", "PROGRESS" >>,
    << "CREATE", "FAILED" >>, << "REVIEW", "IN", "PROGRESS" >>,
    << "ROLLBACK", "COMPLETE" >>, << "ROLLBACK", "IN", "PROGRESS" >>,
    << "UPDATE", "COMPLETE" >>, << "UPDATE", "IN", "PROGRESS" >>,
    << "UPDATE", "COMPLETE", "CLEANUP", "IN", "PROGRESS" >>,
    << "UPDATE", "ROLLBACK", "COMPLETE" >>,
    << "UPDATE", "ROLLBACK", "IN", "PROGRESS" >>,
    << "UPDATE", "ROLLBACK", "FAILED" >>,
    << "DELETE", "IN", "PROGRESS" >>, << "DELETE", "FAILED" >> }

\* created, executed: the change sets this call of deployStack created and
\* executed; final: the status read at line 233.
NoStack ==
  [pc |-> "idle", deploys |-> 0, status |-> NotFound, initial |-> NotFound,
   isCreating |-> FALSE, created |-> 0, executed |-> 0, result |-> "none",
   final |-> NotFound]

\* ---------------------------------------------- deployLambda, url helpers

NoCall == [op |-> "none", input |-> << >>, output |-> << >>,
           outcome |-> "none"]

\* Longest short project name tried.
MaxNameLen == 3

\* The {1,40} of the project name's pattern.
MaxProjectName == 40

\* Project names as character codes: the short ones over a, Z, 7, the
\* dash, the underscore and the space, and names around the limit of 40
\* characters, one of them with an underscore.
ProjectNames ==
  SeqsUpTo({97, 90, 55, 45, 95, 32}, MaxNameLen)
    \cup {[i \in 1..n |-> 97] :
            n \in (MaxProjectName - 1)..(MaxProjectName + 1)}
    \cup {[i \in 1..MaxProjectName |-> IF i = 7 THEN 95 ELSE 97]}

\* Most segments of a path tried.
MaxSegments == 3

\* The segments a, [x], [y] and [...r], as character codes.
Segments ==
  { << 97 >>, << 91, 120, 93 >>, << 91, 121, 93 >>,
    << 91, 46, 46, 46, 114, 93 >> }

\* Paths of one to three segments joined by slashes, with and without the
\* leading slash.
Pathnames ==
  LET RECURSIVE Join(_)
      Join(segments) ==
        IF Len(segments) = 1 THEN segments[1]
        ELSE segments[1] \o << 47 >> \o Join(Tail(segments))
      relative ==
        {Join(q) : q \in SeqsUpTo(Segments, MaxSegments) \ {<< >>}}
  IN  relative \cup {<< 47 >> \o path : path \in relative}

\* ------------------------------------------------------------------ state

VARIABLES
  kind,          \* which entry point the invocation runs ("none": not started)
  args,          \* the arguments of the call
  plan,          \* what the user's handler will do
  pc,            \* position of the outer async function
  task,          \* position of the inner task (runWithMiddleware's body)
  race,          \* the Promise.race: pending, or how it settled first
  elapsed,       \* milliseconds since the invocation started
  due,           \* when the awaited handler call settles (-1: never / none)
  abortTimeout,  \* the delay the abort timer is armed for (-1: not armed)
  aborted,       \* signal.aborted
  firedAt,       \* when the abort timer's callback ran (-1: it did not)
  hooks,         \* the middleware: what each hook does when called
  calls,         \* per hook and handler: number of invocations
  error,         \* the error the catch block holds
  result,        \* what handleQueuedJob resolved to
  value,         \* what the HTTP / socket handler returns or throws
  reply,         \* what asFetchRequest / handleWebSocketMessage resolved to
  ctxs,          \* the execution context objects created so far
  store,         \* the context bound to each task (0: none)
  seen,          \* the user the handler read from the execution context
  commonMiddleware,  \* socket/index.js: authenticate and onError
  upgrade,       \* position of onUpgrade for the connection
  authResult,    \* what authenticateWebSocket returned or threw
  connResponse,  \* the Response of handleWebSocketConnect
  connUser,      \* the user the connection is accepted for
  authCalls,     \* calls of authenticate and of onError while connecting
  lifecycle,     \* onMessageSentAsync / handleUserOnline / handleUserOffline
  fn,            \* loadFunction: the module on disk and the loaded exports
  loader,        \* moduleLoader: require.cache, source maps and watchers
  dev,           \* devServer: the build semaphore, newWorker calls, workers
  stack,         \* deployStack: the CloudFormation stack and the deploy
  call           \* one call of deployLambda or of url's replaceBracket

vars == << kind, args, plan, pc, task, race, elapsed, due, abortTimeout,
           aborted, firedAt, hooks, calls, error, result, value, reply, ctxs,
           store, seen, commonMiddleware, upgrade, authResult, connResponse,
           connUser, authCalls, lifecycle, fn, loader, dev, stack, call >>

\* What only the command line tools use.
toolVars == << dev, stack, call >>

\* What only the builder's development loader and the tools use.
devVars == << fn, loader, toolVars >>

\* What only the HTTP and socket entry points use.
replyVars == << value, reply >>

\* What only the WebSocket connection uses.
connVars ==
  << commonMiddleware, upgrade, authResult, connResponse, connUser, authCalls >>

\* The task of the connection's upgrade, beside the invocations' tasks.
ConnectTask == 0

\* The task of handleUserOnline / handleUserOffline.
LifecycleTask == 3
Tasks == Invocations \cup {ConnectTask, LifecycleTask}

\* No call of onMessageSentAsync, handleUserOnline or handleUserOffline yet.
NoLifecycle ==
  [op |-> "none", pc |-> "idle", hook |-> "absent", onError |-> "absent",
   userId |-> NoUser, data |-> << >>, calls |-> [hook |-> 0, onError |-> 0],
   outcome |-> "none"]

NoArgs ==
  [known |-> FALSE, timeout |-> 0, remainingTime |-> 0, user |-> NoUser,
   payload |-> "json"]

NoCalls ==
  [onJobStarted |-> 0, handler |-> 0, onJobFinished |-> 0, onError |-> 0,
   onMessageReceived |-> 0, onMessageSent |-> 0]

Init ==
  /\ kind = [i \in Invocations |-> "none"]
  /\ args = [i \in Invocations |-> NoArgs]
  /\ plan = [i \in Invocations |-> NoPlan]
  /\ pc = [i \in Invocations |-> "idle"]
  /\ task = [i \in Invocations |-> "none"]
  /\ race = [i \in Invocations |-> "none"]
  /\ elapsed = [i \in Invocations |-> 0]
  /\ due = [i \in Invocations |-> 0 - 1]
  /\ abortTimeout = [i \in Invocations |-> 0 - 1]
  /\ aborted = [i \in Invocations |-> FALSE]
  /\ firedAt = [i \in Invocations |-> 0 - 1]
  /\ hooks = [i \in Invocations |-> NoHooks]
  /\ calls = [i \in Invocations |-> NoCalls]
  /\ error = [i \in Invocations |-> "none"]
  /\ result = [i \in Invocations |-> "none"]
  /\ value = [i \in Invocations |-> NoValue]
  /\ reply = [i \in Invocations |-> NoReply]
  /\ ctxs = << >>
  /\ store = [i \in Tasks |-> 0]
  /\ seen = [i \in Invocations |-> "unread"]
  /\ commonMiddleware = NoCommonMiddleware
  /\ upgrade = "none"
  /\ authResult = NoAuthResult
  /\ connResponse = NoValue
  /\ connUser = NoUser
  /\ authCalls = [authenticate |-> 0, onError |-> 0]
  /\ lifecycle = NoLifecycle
  /\ fn = NoFunction
  /\ loader = NoLoader
  /\ dev = NoDev
  /\ stack = NoStack
  /\ call = NoCall

\* ------------------------------------------------------ execution context

\* A factory that hands every caller the same object.
SharedLocalStorage(objects) == 1

\* newLocalStorage(): the caller's factory, () => new DevLocalStorage(port).
\* Every call makes a new object; objects are named by their index in ctxs.
NewLocalStorage(objects) == Len(objects) + 1

\* The heap after newLocalStorage() returned object id.
Allocated(objects, id) ==
  IF id > Len(objects)
  THEN Append(objects, [user |-> NoUser, connection |-> ""])
  ELSE objects

\* getLocalStorage(): the context bound to the running task.
GetLocalStorage(i) == ctxs[store[i]]

\* ------------------------------------------------------------ queue jobs

\* handler.ts line 45: the time the job may take.
JobTimeout(queueTimeout, remainingTime) == Min(queueTimeout * 1000, remainingTime)

\* A budget check that lets a job start with no time left.
BudgetExhaustedStrict(timeout) == timeout < 0

\* handler.ts line 46: out of time before starting.
BudgetExhausted(timeout) == timeout <= 0

\* handler.ts line 50: the delay handed to setTimeout.
AbortDelay(timeout) == timeout * 1000

\* handler.ts lines 67-70: after the race settled without rejecting.
RaceOutcome(signalAborted) == IF signalAborted THEN "throw" ELSE "return"

\* A race that takes the last settlement instead of the first.
LastSettlementWins(current, how) == how

\* Promise.race: the first settlement wins, later ones are discarded.
Settle(current, how) == IF current = "pending" THEN how ELSE current

\* A race that nothing resolves when the signal aborts.
AbortListenerMissing(current) == current

\* handler.ts line 64: the abort listener resolves the race.
AbortListener(current) == Settle(current, "aborted")

\* The outer function is running synchronously (or in a microtask): no timer
\* callback can run in between.
InMicrotask(i) ==
  \/ pc[i] = "race" /\ race[i] # "pending"
  \/ pc[i] \in {"catch", "respond", "finally"}

\* handler.ts lines 15-51 and 114-118: look the queue up, check the time
\* budget, arm the abort timer, open the execution context and call
\* onJobStarted.  The inputs are drawn from the given sets.
HandleQueuedJobFrom(i, timeouts, remainingTimes, users, plans, middlewares) ==
  /\ kind[i] = "none"
  /\ kind' = [kind EXCEPT ![i] = "queue"]
  /\ \E known \in BOOLEAN :
       IF ~known
       THEN \* line 30: throw new Error("No handler for queue")
            /\ args' = [args EXCEPT ![i] = NoArgs]
            /\ result' = [result EXCEPT ![i] = "rejected"]
            /\ pc' = [pc EXCEPT ![i] = "done"]
            /\ UNCHANGED << plan, task, race, abortTimeout, hooks, calls,
                            ctxs, store >>
       ELSE \E qt \in timeouts, rem \in remainingTimes, u \in users :
              /\ args' = [args EXCEPT ![i] =
                   [known |-> TRUE, timeout |-> qt, remainingTime |-> rem,
                    user |-> u, payload |-> "json"]]
              /\ IF BudgetExhausted(JobTimeout(qt, rem))
                 THEN \* line 46: return false
                      /\ result' = [result EXCEPT ![i] = "false"]
                      /\ pc' = [pc EXCEPT ![i] = "done"]
                      /\ UNCHANGED << plan, task, race, abortTimeout, hooks,
                                      calls, ctxs, store >>
                 ELSE \E p \in plans, m \in middlewares :
                        LET id == NewLocalStorage(ctxs) IN
                        /\ plan' = [plan EXCEPT ![i] = p]
                        /\ hooks' = [hooks EXCEPT ![i] = m]
                        /\ abortTimeout' = [abortTimeout EXCEPT ![i] =
                             AbortDelay(JobTimeout(qt, rem))]
                        /\ pc' = [pc EXCEPT ![i] = "race"]
                        /\ race' = [race EXCEPT ![i] = "pending"]
                        \* line 115-116: withLocalStorage(newLocalStorage(), ..)
                        \* and getLocalStorage().user = metadata.user ?? null
                        /\ ctxs' = [Allocated(ctxs, id) EXCEPT ![id].user = u]
                        /\ store' = [store EXCEPT ![i] = id]
                        \* line 118
                        /\ task' = [task EXCEPT ![i] = "onJobStarted"]
                        /\ calls' = [calls EXCEPT ![i].onJobStarted =
                             IF m.onJobStarted = "absent" THEN 0 ELSE 1]
                        /\ UNCHANGED result
  /\ UNCHANGED << elapsed, due, aborted, firedAt, error, seen,
                  replyVars, connVars,
                  lifecycle, devVars >>

\* Any queue, any time budget, any handler, any middleware.
HandleQueuedJob(i) ==
  HandleQueuedJobFrom(i, QueueTimeouts, RemainingTimes, Users, HandlerPlans,
                      QueueHooks)

\* A test of the signal that never finds it aborted.
NeverAborted(i) == FALSE

\* handler.ts lines 119 and 122: signal.aborted, as the inner task reads it.
SignalAborted(i) == aborted[i]

\* handler.ts lines 118-121: onJobStarted settled; unless it threw or the
\* signal is aborted, call the handler.
SettleOnJobStarted(i) ==
  /\ kind[i] = "queue"
  /\ task[i] = "onJobStarted"
  /\ IF hooks[i].onJobStarted = "throw"
     THEN /\ task' = [task EXCEPT ![i] = "threw"]
          /\ race' = [race EXCEPT ![i] = Settle(@, "rejected")]
          /\ UNCHANGED << due, calls, seen >>
     ELSE IF SignalAborted(i)
     THEN \* line 119
          /\ task' = [task EXCEPT ![i] = "returned"]
          /\ race' = [race EXCEPT ![i] = Settle(@, "resolved")]
          /\ UNCHANGED << due, calls, seen >>
     ELSE \* line 121: the handler runs inside the task's context
          /\ task' = [task EXCEPT ![i] = "handler"]
          /\ calls' = [calls EXCEPT ![i].handler = @ + 1]
          /\ due' = [due EXCEPT ![i] =
               IF plan[i].out = "hang" THEN 0 - 1 ELSE elapsed[i] + plan[i].t]
          /\ seen' = [seen EXCEPT ![i] = GetLocalStorage(i).user]
          /\ UNCHANGED race
  /\ UNCHANGED << kind, args, plan, pc, elapsed, abortTimeout, aborted,
                  firedAt, hooks, error, result, ctxs, store,
                  replyVars, connVars,
                  lifecycle, devVars >>

\* handler.ts lines 121-124: the handler settled at its due time; unless it
\* threw or the signal is aborted, call onJobFinished.
SettleHandler(i) ==
  /\ kind[i] = "queue"
  /\ task[i] = "handler"
  /\ due[i] = elapsed[i]
  /\ due' = [due EXCEPT ![i] = 0 - 1]
  /\ IF plan[i].out = "throw"
     THEN /\ task' = [task EXCEPT ![i] = "threw"]
          /\ race' = [race EXCEPT ![i] = Settle(@, "rejected")]
          /\ UNCHANGED calls
     ELSE IF SignalAborted(i)
     THEN \* line 122
          /\ task' = [task EXCEPT ![i] = "returned"]
          /\ race' = [race EXCEPT ![i] = Settle(@, "resolved")]
          /\ UNCHANGED calls
     ELSE \* line 124
          /\ task' = [task EXCEPT ![i] = "onJobFinished"]
          /\ calls' = [calls EXCEPT ![i].onJobFinished =
               IF hooks[i].onJobFinished = "absent" THEN 0 ELSE 1]
          /\ UNCHANGED race
  /\ UNCHANGED << kind, args, plan, pc, elapsed, abortTimeout, aborted,
                  firedAt, hooks, error, result, ctxs, store, seen,
                  replyVars, connVars,
                  lifecycle, devVars >>

\* handler.ts lines 124-125: onJobFinished settled, the inner task ends.
SettleOnJobFinished(i) ==
  /\ kind[i] = "queue"
  /\ task[i] = "onJobFinished"
  /\ IF hooks[i].onJobFinished = "throw"
     THEN /\ task' = [task EXCEPT ![i] = "threw"]
          /\ race' = [race EXCEPT ![i] = Settle(@, "rejected")]
     ELSE /\ task' = [task EXCEPT ![i] = "returned"]
          /\ race' = [race EXCEPT ![i] = Settle(@, "resolved")]
  /\ UNCHANGED << kind, args, plan, pc, elapsed, due, abortTimeout, aborted,
                  firedAt, hooks, calls, error, result, ctxs, store, seen,
                  replyVars, connVars,
                  lifecycle, devVars >>

\* handler.ts line 50: the abort timer's callback, controller.abort(), and
\* line 64, the abort listener.
AbortTimerFires(i) ==
  /\ kind[i] = "queue"
  /\ abortTimeout[i] >= 0
  /\ elapsed[i] = abortTimeout[i]
  /\ ~InMicrotask(i)
  /\ abortTimeout' = [abortTimeout EXCEPT ![i] = 0 - 1]
  /\ aborted' = [aborted EXCEPT ![i] = TRUE]
  /\ firedAt' = [firedAt EXCEPT ![i] = elapsed[i]]
  /\ race' = [race EXCEPT ![i] = AbortListener(@)]
  /\ UNCHANGED << kind, args, plan, pc, task, elapsed, due, hooks, calls,
                  error, result, ctxs, store, seen,
                  replyVars, connVars,
                  lifecycle, devVars >>

\* handler.ts lines 54-71: the race settled; return true, or throw into the
\* catch block.
RaceSettled(i) ==
  /\ kind[i] = "queue"
  /\ pc[i] = "race"
  /\ race[i] \notin {"pending", "none"}
  /\ IF race[i] = "rejected"
     THEN /\ pc' = [pc EXCEPT ![i] = "catch"]
          /\ error' = [error EXCEPT ![i] = "thrown"]
          /\ UNCHANGED result
     ELSE IF RaceOutcome(aborted[i]) = "throw"
     THEN \* line 68
          /\ pc' = [pc EXCEPT ![i] = "catch"]
          /\ error' = [error EXCEPT ![i] = "timeout"]
          /\ UNCHANGED result
     ELSE \* line 70
          /\ pc' = [pc EXCEPT ![i] = "finally"]
          /\ result' = [result EXCEPT ![i] = "true"]
          /\ UNCHANGED error
  /\ UNCHANGED << kind, args, plan, task, race, elapsed, due, abortTimeout,
                  aborted, firedAt, hooks, calls, ctxs, store, seen,
                  replyVars, connVars,
                  lifecycle, devVars >>

\* A catch block that returns false without telling onError.
CatchWithoutHook(i) ==
  /\ kind[i] = "queue"
  /\ pc[i] = "catch"
  /\ pc' = [pc EXCEPT ![i] = "finally"]
  /\ result' = [result EXCEPT ![i] = "false"]
  /\ UNCHANGED << kind, args, plan, task, race, elapsed, due, abortTimeout,
                  aborted, firedAt, hooks, calls, error, ctxs, store, seen,
                  replyVars, connVars, lifecycle, devVars >>

\* handler.ts lines 71-84 and 94: log, call onError if the middleware has it.
CatchError(i) ==
  /\ kind[i] = "queue"
  /\ pc[i] = "catch"
  /\ IF hooks[i].onError = "absent"
     THEN /\ pc' = [pc EXCEPT ![i] = "finally"]
          /\ result' = [result EXCEPT ![i] = "false"]
          /\ UNCHANGED calls
     ELSE /\ pc' = [pc EXCEPT ![i] = "onError"]
          /\ calls' = [calls EXCEPT ![i].onError = @ + 1]
          /\ UNCHANGED result
  /\ UNCHANGED << kind, args, plan, task, race, elapsed, due, abortTimeout,
                  aborted, firedAt, hooks, error, ctxs, store, seen,
                  replyVars, connVars,
                  lifecycle, devVars >>

\* An onError whose failure escapes handleQueuedJob.
OnErrorEscapes(i) ==
  /\ kind[i] = "queue"
  /\ pc[i] = "onError"
  /\ pc' = [pc EXCEPT ![i] = "finally"]
  /\ result' = [result EXCEPT ![i] =
       IF hooks[i].onError = "throw" THEN "rejected" ELSE "false"]
  /\ UNCHANGED << kind, args, plan, task, race, elapsed, due, abortTimeout,
                  aborted, firedAt, hooks, calls, error, ctxs, store, seen,
                  replyVars, connVars, lifecycle, devVars >>

\* handler.ts lines 81-94: onError settled; what it threw is logged and
\* dropped.
SettleOnError(i) ==
  /\ kind[i] = "queue"
  /\ pc[i] = "onError"
  /\ pc' = [pc EXCEPT ![i] = "finally"]
  /\ result' = [result EXCEPT ![i] = "false"]
  /\ UNCHANGED << kind, args, plan, task, race, elapsed, due, abortTimeout,
                  aborted, firedAt, hooks, calls, error, ctxs, store, seen,
                  replyVars, connVars,
                  lifecycle, devVars >>

\* A handleQueuedJob that returns without its finally block.
ReturnsWithoutFinally(i) ==
  /\ kind[i] = "queue"
  /\ pc[i] = "finally"
  /\ pc' = [pc EXCEPT ![i] = "done"]
  /\ UNCHANGED << kind, args, plan, task, race, elapsed, due, abortTimeout,
                  aborted, firedAt, hooks, calls, error, result, ctxs, store,
                  seen, replyVars, connVars, lifecycle, devVars >>

\* handler.ts lines 95-98: clearTimeout(abortTimeout); controller.abort().
Finally(i) ==
  /\ kind[i] = "queue"
  /\ pc[i] = "finally"
  /\ pc' = [pc EXCEPT ![i] = "done"]
  /\ abortTimeout' = [abortTimeout EXCEPT ![i] = 0 - 1]
  /\ aborted' = [aborted EXCEPT ![i] = TRUE]
  /\ UNCHANGED << kind, args, plan, task, race, elapsed, due, firedAt,
                  hooks, calls, error, result, ctxs, store, seen,
                  replyVars, connVars,
                  lifecycle, devVars >>

\* The times at which something is scheduled to happen to invocation i.
PendingTimes(i) ==
  (IF abortTimeout[i] >= 0 THEN {abortTimeout[i]} ELSE {})
  \cup (IF task[i] = "handler" /\ due[i] >= 0 THEN {due[i]} ELSE {})

\* Time passes, up to the next scheduled event of the invocation.
AdvanceTime(i) ==
  /\ kind[i] # "none"
  /\ ~InMicrotask(i)
  /\ PendingTimes(i) # {}
  /\ \A t \in PendingTimes(i) : t > elapsed[i]
  /\ elapsed' = [elapsed EXCEPT ![i] =
       CHOOSE t \in PendingTimes(i) : \A u \in PendingTimes(i) : t <= u]
  /\ UNCHANGED << kind, args, plan, pc, task, race, due, abortTimeout,
                  aborted, firedAt, hooks, calls, error, result, ctxs,
                  store, seen,
                  replyVars, connVars,
                  lifecycle, devVars >>

\* The steps of a queue job once started.
QueueStep(i) ==
  \/ SettleOnJobStarted(i)
  \/ SettleHandler(i)
  \/ SettleOnJobFinished(i)
  \/ AbortTimerFires(i)
  \/ RaceSettled(i)
  \/ CatchError(i)
  \/ SettleOnError(i)
  \/ Finally(i)
  \/ AdvanceTime(i)

\* --------------------------------------------------------- asFetchRequest

\* new Response(body, { status, headers }) as node-fetch builds it: a text
\* body with no Content-Type header gets text/plain;charset=UTF-8.
NewResponse(body, status, contentType, isText) ==
  Value("Response", status,
        IF contentType = "" /\ isText THEN "text/plain;charset=UTF-8"
        ELSE contentType,
        body, NoJson)

\* part_002 lines 73-82: the reply handed to the gateway.
FromFetchResponse(response) ==
  [type |-> "gateway",
   statusCode |-> response.status,
   contentType |-> response.contentType,
   body |-> Base64(response.body),
   bodyEncoding |-> "base64"]

\* A normalisation that knows Responses only and serializes the rest.
ReturnedAsJson(response) ==
  IF response.type = "Response" THEN response
  ELSE NewResponse(JSONStringify(response.json), 200, "application/json", TRUE)

\* A conversion that answers every thrown value with a 500.
ThrownAsServerError(thrown) ==
  NewResponse(thrown.body, 500, "", thrown.type # "Response")

\* part_002 lines 15-38: the handler returned.
ReturnedToResponse(response) ==
  CASE response.type = "Response" -> response
    [] response.type = "string" ->
         NewResponse(response.body, 200, "text/plain", TRUE)
    [] response.type = "Buffer" ->
         NewResponse(response.body, 200, "text/plain", FALSE)
    [] response.type \in {"null", "undefined"} ->
         NewResponse(<< >>, 204, "", FALSE)
    [] OTHER ->
         NewResponse(JSONStringify(response.json), 200, "application/json", TRUE)

\* String(error) of a thrown value: an Error gives "Error: " and its message.
StringOf(thrown) ==
  IF thrown.type = "Error"
  THEN << 69, 114, 114, 111, 114, 58, 32 >> \o thrown.body
  ELSE thrown.body

\* part_002 lines 39-48: the handler threw.  { ...error } copies none of a
\* Response's accessors, so only body and status are carried over.
ThrownToResponse(thrown) ==
  IF thrown.type = "Response"
  THEN NewResponse(thrown.body, thrown.status, "", FALSE)
  ELSE NewResponse(
         IF thrown.type = "Error" THEN thrown.body ELSE StringOf(thrown),
         500, "", TRUE)

\* part_002 lines 7-13: asFetchRequest calls the handler with the request.
AsFetchRequestFrom(i, returned, thrown) ==
  /\ kind[i] = "none"
  /\ kind' = [kind EXCEPT ![i] = "http"]
  /\ pc' = [pc EXCEPT ![i] = "handler"]
  /\ \/ \E v \in returned :
          /\ plan' = [plan EXCEPT ![i] = [out |-> "return", t |-> 0]]
          /\ value' = [value EXCEPT ![i] = v]
     \/ \E v \in thrown :
          /\ plan' = [plan EXCEPT ![i] = [out |-> "throw", t |-> 0]]
          /\ value' = [value EXCEPT ![i] = v]
  /\ calls' = [calls EXCEPT ![i].handler = 1]
  /\ UNCHANGED << args, task, race, elapsed, due, abortTimeout, aborted,
                  firedAt, hooks, error, result, reply, ctxs, store, seen,
                  connVars,
                  lifecycle, devVars >>

\* Any handler.
AsFetchRequest(i) == AsFetchRequestFrom(i, ReturnValues, ThrownValues)

\* part_002 lines 13-49: the handler settled, the reply is built.
AsFetchRequestReplies(i) ==
  /\ kind[i] = "http"
  /\ pc[i] = "handler"
  /\ pc' = [pc EXCEPT ![i] = "done"]
  /\ reply' = [reply EXCEPT ![i] =
       FromFetchResponse(
         IF plan[i].out = "return" THEN ReturnedToResponse(value[i])
         ELSE ThrownToResponse(value[i]))]
  /\ UNCHANGED << kind, args, plan, task, race, elapsed, due, abortTimeout,
                  aborted, firedAt, hooks, calls, error, result, value, ctxs,
                  store, seen,
                  connVars,
                  lifecycle, devVars >>

\* ------------------------------------------------- WebSocket connection

\* A check that accepts any object, with or without an id.
AnyObjectIsValid(user) == user.type \in {"null", "object"}

\* A check that takes undefined for null.
NullishIsValid(user) ==
  \/ user.type \in {"null", "undefined"}
  \/ user.type = "object" /\ user.hasId /\ user.id # ""

\* part_004 line 43: user === null || user?.id
ValidUser(user) ==
  \/ user.type = "null"
  \/ user.type = "object" /\ user.hasId /\ user.id # ""

\* part_004 lines 41 and 50: the Responses authenticateWebSocket throws.
AuthFailed(status, body) ==
  [how |-> "throw", user |-> AuthUser("null", FALSE, ""),
   thrown |-> Value("Response", status, "", body, NoJson)]

\* part_004 lines 43-50: authenticate returned user.
AuthReturned(user) ==
  IF ValidUser(user)
  THEN [how |-> "return", user |-> user, thrown |-> NoValue]
  ELSE AuthFailed(403, Forbidden)

\* part_004 lines 31-41: authenticate threw; whatever it threw, and whatever
\* onError did, the outcome is a 500.
AuthThrew(thrown) == AuthFailed(500, InternalServerError)

\* part_006 lines 339-366 and part_004 lines 17-30: the upgrade request
\* arrives; handleWebSocketConnect calls authenticateWebSocket, which calls
\* authenticate inside a new execution context.
OnUpgradeFrom(middlewares) ==
  /\ upgrade = "none"
  /\ \E m \in middlewares :
       /\ commonMiddleware' = m
       /\ IF m.authenticate = "absent"
          THEN \* line 25: return null
               /\ authResult' = AuthReturned(AuthUser("null", FALSE, ""))
               /\ upgrade' = "connect"
               /\ UNCHANGED << authCalls, ctxs, store >>
          ELSE LET id == NewLocalStorage(ctxs) IN
               /\ ctxs' = Allocated(ctxs, id)
               /\ store' = [store EXCEPT ![ConnectTask] = id]
               /\ authCalls' = [authCalls EXCEPT !.authenticate = @ + 1]
               /\ upgrade' = "authenticate"
               /\ UNCHANGED authResult
  /\ UNCHANGED << kind, args, plan, pc, task, race, elapsed, due,
                  abortTimeout, aborted, firedAt, hooks, calls, error, result,
                  replyVars, seen, connResponse, connUser,
                  lifecycle, devVars >>

\* Any common middleware.
OnUpgrade == OnUpgradeFrom(CommonMiddlewares)

\* part_004 lines 30-50: authenticate settled.
SettleAuthenticate ==
  /\ upgrade = "authenticate"
  /\ IF commonMiddleware.authenticate = "throw"
     THEN IF commonMiddleware.onError = "absent"
          THEN /\ authResult' = AuthThrew(commonMiddleware.thrown)
               /\ upgrade' = "connect"
               /\ UNCHANGED authCalls
          ELSE \* line 34
               /\ authCalls' = [authCalls EXCEPT !.onError = @ + 1]
               /\ upgrade' = "onError"
               /\ UNCHANGED authResult
     ELSE /\ authResult' = AuthReturned(commonMiddleware.user)
          /\ upgrade' = "connect"
          /\ UNCHANGED authCalls
  /\ UNCHANGED << kind, args, plan, pc, task, race, elapsed, due,
                  abortTimeout, aborted, firedAt, hooks, calls, error, result,
                  replyVars, ctxs, store, seen, commonMiddleware,
                  connResponse, connUser,
                  lifecycle, devVars >>

\* part_004 lines 34-41: onError settled; what it threw is logged.
SettleAuthOnError ==
  /\ upgrade = "onError"
  /\ authResult' = AuthThrew(commonMiddleware.thrown)
  /\ upgrade' = "connect"
  /\ UNCHANGED << kind, args, plan, pc, task, race, elapsed, due,
                  abortTimeout, aborted, firedAt, hooks, calls, error, result,
                  replyVars, ctxs, store, seen, commonMiddleware,
                  connResponse, connUser, authCalls,
                  lifecycle, devVars >>

\* handleWebSocketConnect: a thrown Response is the Response of the
\* connection; an authenticated user is recorded for the connection.
ConnectResponse(auth) ==
  IF auth.how = "throw" THEN auth.thrown
  ELSE Value("Response", 200, "", << >>, NoJson)

ConnectUser(auth) ==
  IF auth.how = "return" /\ auth.user.type = "object" THEN auth.user.id
  ELSE NoUser

HandleWebSocketConnect ==
  /\ upgrade = "connect"
  /\ \/ /\ connResponse' = ConnectResponse(authResult)
        /\ connUser' = ConnectUser(authResult)
        /\ upgrade' = "response"
     \/ \* or it throws, into the catch block of onUpgrade
        /\ upgrade' = "threw"
        /\ UNCHANGED << connResponse, connUser >>
  /\ UNCHANGED << kind, args, plan, pc, task, race, elapsed, due,
                  abortTimeout, aborted, firedAt, hooks, calls, error, result,
                  replyVars, ctxs, store, seen, commonMiddleware, authResult,
                  authCalls,
                  lifecycle, devVars >>

\* A server that refuses server errors only.
RejectsServerErrors(response) == response.status > 499

\* part_006 line 368: the connection is refused.
Rejects(response) == response.status > 299

\* part_006 lines 368-383: refuse and destroy the socket, or upgrade and
\* attach the message listener (onConnection).
OnUpgradeDecides ==
  /\ upgrade = "response"
  /\ upgrade' = IF Rejects(connResponse) THEN "rejected" ELSE "accepted"
  /\ UNCHANGED << kind, args, plan, pc, task, race, elapsed, due,
                  abortTimeout, aborted, firedAt, hooks, calls, error, result,
                  replyVars, ctxs, store, seen, commonMiddleware, authResult,
                  connResponse, connUser, authCalls,
                  lifecycle, devVars >>

\* part_006 lines 384-388: handleWebSocketConnect threw; answer 500 and
\* destroy the socket.
OnUpgradeCatches ==
  /\ upgrade = "threw"
  /\ upgrade' = "rejected"
  /\ UNCHANGED << kind, args, plan, pc, task, race, elapsed, due,
                  abortTimeout, aborted, firedAt, hooks, calls, error, result,
                  replyVars, ctxs, store, seen, commonMiddleware, authResult,
                  connResponse, connUser, authCalls, lifecycle, devVars >>

ConnectStep ==
  \/ SettleAuthenticate
  \/ SettleAuthOnError
  \/ HandleWebSocketConnect
  \/ OnUpgradeDecides
  \/ OnUpgradeCatches

\* --------------------------------------------------- WebSocket messages

\* route.timeout, in seconds.
RouteTimeouts == {10}

\* What a socket handler does: returns a value or throws one after t
\* milliseconds, or never settles.
SocketPlans ==
  { [out |-> "return", t |-> 1000],
    [out |-> "return", t |-> 11000],
    [out |-> "throw", t |-> 1000],
    [out |-> "hang", t |-> 0] }

\* What socket handlers return: nothing, text, or a plain value.
SocketValues ==
  { Value("undefined", 0, "", << >>, NoJson) }
  \cup { Value("string", 0, "", t, NoJson) : t \in Texts }
  \cup { Value("object", 0, "", << >>, j) : j \in JsonValues }

\* What socket handlers throw.
SocketThrown == { Value("Error", 0, "", t, NoJson) : t \in Texts }

\* "TimeoutError: Request aborted: timed out"
TimeoutErrorText ==
  << 84, 105, 109, 101, 111, 117, 116, 69, 114, 114, 111, 114, 58, 32,
     82, 101, 113, 117, 101, 115, 116, 32, 97, 98, 111, 114, 116, 101,
     100, 58, 32, 116, 105, 109, 101, 100, 32, 111, 117, 116 >>

\* "SyntaxError: Unexpected end of JSON input"
SyntaxErrorText ==
  << 83, 121, 110, 116, 97, 120, 69, 114, 114, 111, 114, 58, 32, 85,
     110, 101, 120, 112, 101, 99, 116, 101, 100, 32, 101, 110, 100,
     32, 111, 102, 32, 74, 83, 79, 78, 32, 105, 110, 112, 117, 116 >>

\* "Error: hook failed", String(error) of what a hook throws.
HookErrorText ==
  << 69, 114, 114, 111, 114, 58, 32, 104, 111, 111, 107, 32, 102, 97,
     105, 108, 101, 100 >>

\* "Not available"
NotAvailable ==
  << 78, 111, 116, 32, 97, 118, 97, 105, 108, 97, 98, 108, 101 >>

\* A Buffer handed back to the socket server.
BufferReply(bytes) ==
  [type |-> "Buffer", statusCode |-> 0, contentType |-> "", body |-> bytes,
   bodyEncoding |-> ""]

NullReply ==
  [type |-> "null", statusCode |-> 0, contentType |-> "", body |-> << >>,
   bodyEncoding |-> ""]

\* part_004 lines 100, 118, 226: Buffer.from(JSON.stringify({ error: text })).
ErrorReply(text) ==
  BufferReply(JSONStringify(JObj(<< << 101, 114, 114, 111, 114 >> >>,
                                 << JStr(text) >>)))

\* part_004 lines 266-274: resultToBuffer, with QUEUE_RUN_INDENT unset.
ResultToBuffer(res) ==
  IF res.type \in {"string", "Buffer"} THEN res.body
  ELSE JSONStringify(res.json)

\* part_004 line 208: !response
Falsy(response) ==
  \/ response.type \in {"undefined", "null"}
  \/ response.type = "string" /\ response.body = << >>

\* String(error) of the error the catch block of runWithMiddleware holds.
ErrorText(i) ==
  CASE error[i] = "timeout" -> TimeoutErrorText
    [] error[i] = "hook" -> HookErrorText
    [] OTHER -> StringOf(value[i])

\* part_004 lines 76-115, 145-168, 190-196: find the route; arm the timer,
\* open the execution context, parse the data and call onMessageReceived.
\* The listener exists only on an accepted connection (part_006 lines
\* 377-422), and userId is the connection's user.
HandleWebSocketMessageFrom(i, timeouts, plans, returned, thrown, middlewares) ==
  /\ kind[i] = "none"
  /\ upgrade = "accepted"
  /\ kind' = [kind EXCEPT ![i] = "socket"]
  /\ \E found \in BOOLEAN :
       IF ~found
       THEN \* lines 93-100: findRoute threw
            /\ args' = [args EXCEPT ![i] = [NoArgs EXCEPT !.user = connUser]]
            /\ error' = [error EXCEPT ![i] = "route"]
            /\ IF commonMiddleware.onError = "absent"
               THEN /\ reply' = [reply EXCEPT ![i] = ErrorReply(NotAvailable)]
                    /\ pc' = [pc EXCEPT ![i] = "done"]
                    /\ UNCHANGED calls
               ELSE /\ pc' = [pc EXCEPT ![i] = "routeError"]
                    /\ calls' = [calls EXCEPT ![i].onError = @ + 1]
                    /\ UNCHANGED reply
            /\ UNCHANGED << plan, task, race, abortTimeout, aborted, hooks,
                            value, ctxs, store >>
       ELSE \E rt \in timeouts, payload \in {"json", "invalid"},
               m \in middlewares :
              LET id == NewLocalStorage(ctxs) IN
              /\ args' = [args EXCEPT ![i] =
                   [known |-> TRUE, timeout |-> rt, remainingTime |-> 0,
                    user |-> connUser, payload |-> payload]]
              /\ hooks' = [hooks EXCEPT ![i] = m]
              \* lines 156-159
              /\ ctxs' = [Allocated(ctxs, id) EXCEPT
                            ![id].user = connUser, ![id].connection = "c1"]
              /\ store' = [store EXCEPT ![i] = id]
              /\ IF payload = "invalid"
                 THEN \* line 191 throws: lines 169-172, then 116-118
                      /\ error' = [error EXCEPT ![i] = "parse"]
                      /\ reply' = [reply EXCEPT ![i] =
                           ErrorReply(SyntaxErrorText)]
                      /\ aborted' = [aborted EXCEPT ![i] = TRUE]
                      /\ pc' = [pc EXCEPT ![i] = "done"]
                      /\ UNCHANGED << plan, task, race, abortTimeout, calls,
                                      value >>
                 ELSE \E p \in plans :
                      \E v \in IF p.out = "return" THEN returned
                               ELSE IF p.out = "throw" THEN thrown
                               ELSE {NoValue} :
                        /\ plan' = [plan EXCEPT ![i] = p]
                        /\ value' = [value EXCEPT ![i] = v]
                        \* line 146
                        /\ abortTimeout' = [abortTimeout EXCEPT ![i] = rt * 1000]
                        /\ pc' = [pc EXCEPT ![i] = "race"]
                        /\ race' = [race EXCEPT ![i] = "pending"]
                        \* lines 195-196
                        /\ task' = [task EXCEPT ![i] = "onMessageReceived"]
                        /\ calls' = [calls EXCEPT ![i].onMessageReceived =
                             IF m.onMessageReceived = "absent" THEN 0 ELSE 1]
                        /\ UNCHANGED << error, reply, aborted >>
  /\ UNCHANGED << elapsed, due, firedAt, result, seen, connVars,
                  lifecycle, devVars >>

\* Any route, any handler, any middleware.
HandleWebSocketMessage(i) ==
  HandleWebSocketMessageFrom(i, RouteTimeouts, SocketPlans, SocketValues,
                             SocketThrown, SocketHooks)

\* A lookup failure whose onError failure escapes handleWebSocketMessage.
RouteOnErrorEscapes(i) ==
  /\ kind[i] = "socket"
  /\ pc[i] = "routeError"
  /\ pc' = [pc EXCEPT ![i] = "done"]
  /\ reply' = [reply EXCEPT ![i] =
       IF commonMiddleware.onError = "throw"
       THEN [NoReply EXCEPT !.type = "rejected"]
       ELSE ErrorReply(NotAvailable)]
  /\ UNCHANGED << kind, args, plan, task, race, elapsed, due, abortTimeout,
                  aborted, firedAt, hooks, calls, error, result, value, ctxs,
                  store, seen, connVars, lifecycle, devVars >>

\* part_004 lines 94-100 and 116-118: the common onError settled after
\* findRoute failed; if it threw, the outer catch answers with its error.
SettleRouteOnError(i) ==
  /\ kind[i] = "socket"
  /\ pc[i] = "routeError"
  /\ pc' = [pc EXCEPT ![i] = "done"]
  /\ reply' = [reply EXCEPT ![i] =
       IF commonMiddleware.onError = "throw" THEN ErrorReply(HookErrorText)
       ELSE ErrorReply(NotAvailable)]
  /\ UNCHANGED << kind, args, plan, task, race, elapsed, due, abortTimeout,
                  aborted, firedAt, hooks, calls, error, result, value, ctxs,
                  store, seen, connVars,
                  lifecycle, devVars >>

\* part_004 lines 196-198: onMessageReceived settled; unless it threw, call
\* the handler.
SettleOnMessageReceived(i) ==
  /\ kind[i] = "socket"
  /\ task[i] = "onMessageReceived"
  /\ IF hooks[i].onMessageReceived = "throw"
     THEN /\ task' = [task EXCEPT ![i] = "threw"]
          /\ error' = [error EXCEPT ![i] =
               IF race[i] = "pending" THEN "hook" ELSE @]
          /\ race' = [race EXCEPT ![i] = Settle(@, "rejected")]
          /\ UNCHANGED << due, calls, seen >>
     ELSE \* line 198: the handler runs inside the task's context
          /\ task' = [task EXCEPT ![i] = "handler"]
          /\ calls' = [calls EXCEPT ![i].handler = @ + 1]
          /\ due' = [due EXCEPT ![i] =
               IF plan[i].out = "hang" THEN 0 - 1 ELSE elapsed[i] + plan[i].t]
          /\ seen' = [seen EXCEPT ![i] = GetLocalStorage(i).user]
          /\ UNCHANGED << race, error >>
  /\ UNCHANGED << kind, args, plan, pc, elapsed, abortTimeout, aborted,
                  firedAt, hooks, result, replyVars, ctxs, store, connVars,
                  lifecycle, devVars >>

\* part_004 lines 198-199: the handler settled at its due time.
SettleSocketHandler(i) ==
  /\ kind[i] = "socket"
  /\ task[i] = "handler"
  /\ due[i] = elapsed[i]
  /\ due' = [due EXCEPT ![i] = 0 - 1]
  /\ IF plan[i].out = "throw"
     THEN /\ task' = [task EXCEPT ![i] = "threw"]
          /\ error' = [error EXCEPT ![i] =
               IF race[i] = "pending" THEN "thrown" ELSE @]
          /\ race' = [race EXCEPT ![i] = Settle(@, "rejected")]
     ELSE /\ task' = [task EXCEPT ![i] = "returned"]
          /\ race' = [race EXCEPT ![i] = Settle(@, "resolved")]
          /\ UNCHANGED error
  /\ UNCHANGED << kind, args, plan, pc, elapsed, abortTimeout, aborted,
                  firedAt, hooks, calls, result, replyVars, ctxs, store, seen,
                  connVars,
                  lifecycle, devVars >>

\* part_004 lines 146 and 201-203: the route's timer aborts the signal, and
\* the abort listener resolves the race with undefined.
SocketTimerFires(i) ==
  /\ kind[i] = "socket"
  /\ abortTimeout[i] >= 0
  /\ elapsed[i] = abortTimeout[i]
  /\ ~InMicrotask(i)
  /\ abortTimeout' = [abortTimeout EXCEPT ![i] = 0 - 1]
  /\ aborted' = [aborted EXCEPT ![i] = TRUE]
  /\ firedAt' = [firedAt EXCEPT ![i] = elapsed[i]]
  /\ race' = [race EXCEPT ![i] = Settle(@, "aborted")]
  /\ UNCHANGED << kind, args, plan, pc, task, elapsed, due, hooks, calls,
                  error, result, replyVars, ctxs, store, seen, connVars,
                  lifecycle, devVars >>

\* part_004 lines 245-258: handleResponse turns the response into a Buffer
\* and calls onMessageSent if the middleware has it.
HandleResponse(i, data) ==
  /\ reply' = [reply EXCEPT ![i] = BufferReply(data)]
  /\ IF hooks[i].onMessageSent = "absent"
     THEN /\ pc' = [pc EXCEPT ![i] = "finally"]
          /\ UNCHANGED calls
     ELSE /\ pc' = [pc EXCEPT ![i] = "onMessageSent"]
          /\ calls' = [calls EXCEPT ![i].onMessageSent = @ + 1]

\* part_004 lines 193-215: the race settled.
SocketRaceSettled(i) ==
  /\ kind[i] = "socket"
  /\ pc[i] = "race"
  /\ race[i] \notin {"pending", "none"}
  /\ IF race[i] = "rejected"
     THEN /\ pc' = [pc EXCEPT ![i] = "catch"]
          /\ UNCHANGED << error, reply, calls >>
     ELSE IF aborted[i]
     THEN \* line 206
          /\ pc' = [pc EXCEPT ![i] = "catch"]
          /\ error' = [error EXCEPT ![i] = "timeout"]
          /\ UNCHANGED << reply, calls >>
     ELSE IF Falsy(value[i])
     THEN \* line 208
          /\ pc' = [pc EXCEPT ![i] = "finally"]
          /\ reply' = [reply EXCEPT ![i] = NullReply]
          /\ UNCHANGED << error, calls >>
     ELSE \* line 210
          /\ HandleResponse(i, ResultToBuffer(value[i]))
          /\ UNCHANGED error
  /\ UNCHANGED << kind, args, plan, task, race, elapsed, due, abortTimeout,
                  aborted, firedAt, hooks, result, value, ctxs, store, seen,
                  connVars,
                  lifecycle, devVars >>

\* part_004 lines 215-221 and 287-292: handleOnError calls onError if the
\* middleware has it.
SocketCatch(i) ==
  /\ kind[i] = "socket"
  /\ pc[i] = "catch"
  /\ IF hooks[i].onError = "absent"
     THEN /\ pc' = [pc EXCEPT ![i] = "respond"]
          /\ UNCHANGED calls
     ELSE /\ pc' = [pc EXCEPT ![i] = "onError"]
          /\ calls' = [calls EXCEPT ![i].onError = @ + 1]
  /\ UNCHANGED << kind, args, plan, task, race, elapsed, due, abortTimeout,
                  aborted, firedAt, hooks, error, result, replyVars, ctxs,
                  store, seen, connVars,
                  lifecycle, devVars >>

\* part_004 lines 289-296: onError settled; what it threw is logged.
SettleSocketOnError(i) ==
  /\ kind[i] = "socket"
  /\ pc[i] = "onError"
  /\ pc' = [pc EXCEPT ![i] = "respond"]
  /\ UNCHANGED << kind, args, plan, task, race, elapsed, due, abortTimeout,
                  aborted, firedAt, hooks, calls, error, result, replyVars,
                  ctxs, store, seen, connVars,
                  lifecycle, devVars >>

\* An error reply that is returned without going through handleResponse.
RespondWithoutHook(i) ==
  /\ kind[i] = "socket"
  /\ pc[i] = "respond"
  /\ reply' = [reply EXCEPT ![i] = ErrorReply(ErrorText(i))]
  /\ pc' = [pc EXCEPT ![i] = "finally"]
  /\ UNCHANGED << kind, args, plan, task, race, elapsed, due, abortTimeout,
                  aborted, firedAt, hooks, calls, error, result, value, ctxs,
                  store, seen, connVars, lifecycle, devVars >>

\* part_004 lines 223-227: answer with { error: String(error) }.
RespondWithError(i) ==
  /\ kind[i] = "socket"
  /\ pc[i] = "respond"
  /\ HandleResponse(i, ErrorReply(ErrorText(i)).body)
  /\ UNCHANGED << kind, args, plan, task, race, elapsed, due, abortTimeout,
                  aborted, firedAt, hooks, error, result, value, ctxs, store,
                  seen, connVars,
                  lifecycle, devVars >>

\* An onMessageSent whose failure replaces the reply by an error reply.
OnMessageSentEscapes(i) ==
  /\ kind[i] = "socket"
  /\ pc[i] = "onMessageSent"
  /\ pc' = [pc EXCEPT ![i] = "finally"]
  /\ reply' = [reply EXCEPT ![i] =
       IF hooks[i].onMessageSent = "throw" THEN ErrorReply(HookErrorText)
       ELSE @]
  /\ UNCHANGED << kind, args, plan, task, race, elapsed, due, abortTimeout,
                  aborted, firedAt, hooks, calls, error, result, value,
                  ctxs, store, seen, connVars, lifecycle, devVars >>

\* part_004 lines 258-263: onMessageSent settled; what it threw is logged.
SettleOnMessageSent(i) ==
  /\ kind[i] = "socket"
  /\ pc[i] = "onMessageSent"
  /\ pc' = [pc EXCEPT ![i] = "finally"]
  /\ UNCHANGED << kind, args, plan, task, race, elapsed, due, abortTimeout,
                  aborted, firedAt, hooks, calls, error, result, replyVars,
                  ctxs, store, seen, connVars,
                  lifecycle, devVars >>

\* part_004 lines 169-172: clearTimeout(timer); controller.abort().
SocketFinally(i) ==
  /\ kind[i] = "socket"
  /\ pc[i] = "finally"
  /\ pc' = [pc EXCEPT ![i] = "done"]
  /\ abortTimeout' = [abortTimeout EXCEPT ![i] = 0 - 1]
  /\ aborted' = [aborted EXCEPT ![i] = TRUE]
  /\ UNCHANGED << kind, args, plan, task, race, elapsed, due, firedAt,
                  hooks, calls, error, result, replyVars, ctxs, store, seen,
                  connVars,
                  lifecycle, devVars >>

\* The steps of a socket message once started.
SocketStep(i) ==
  \/ SettleRouteOnError(i)
  \/ SettleOnMessageReceived(i)
  \/ SettleSocketHandler(i)
  \/ SocketTimerFires(i)
  \/ SocketRaceSettled(i)
  \/ SocketCatch(i)
  \/ SettleSocketOnError(i)
  \/ RespondWithError(i)
  \/ SettleOnMessageSent(i)
  \/ SocketFinally(i)
  \/ AdvanceTime(i)

\* ------------------------------------------- pushes, online and offline

\* What the common middleware's hook and onError do when called.
LifecycleHooks == [hook : HookOutcomes, onError : HookOutcomes]

\* part_004 lines 299-310: a server-initiated push of data is reported to
\* the common middleware's onMessageSent, if it has one.
OnMessageSentAsyncFrom(middlewares, buffers) ==
  /\ lifecycle.op = "none"
  /\ \E m \in middlewares, data \in buffers :
       lifecycle' =
         IF m.hook = "absent"
         THEN \* line 307
              [NoLifecycle EXCEPT !.op = "push", !.pc = "done",
                 !.onError = m.onError, !.data = data, !.outcome = "resolved"]
         ELSE [NoLifecycle EXCEPT !.op = "push", !.pc = "hook",
                 !.hook = m.hook, !.onError = m.onError, !.data = data,
                 !.calls.hook = 1]
  /\ UNCHANGED << kind, args, plan, pc, task, race, elapsed, due,
                  abortTimeout, aborted, firedAt, hooks, calls, error, result,
                  replyVars, ctxs, store, seen, connVars, devVars >>

OnMessageSentAsync == OnMessageSentAsyncFrom(LifecycleHooks, Buffers)

\* part_004 lines 324-336 and 351-363: handleUserOnline (op "online") and
\* handleUserOffline (op "offline") call onOnline / onOffline, if the common
\* middleware has it, inside a new execution context.
HandleUserPresence(op, middlewares, users) ==
  /\ lifecycle.op = "none"
  /\ \E m \in middlewares, u \in users :
       IF m.hook = "absent"
       THEN \* lines 332, 359: return null
            /\ lifecycle' =
                 [NoLifecycle EXCEPT !.op = op, !.pc = "done",
                    !.onError = m.onError, !.userId = u,
                    !.outcome = "resolved"]
            /\ UNCHANGED << ctxs, store >>
       ELSE LET id == NewLocalStorage(ctxs) IN
            /\ ctxs' = Allocated(ctxs, id)
            /\ store' = [store EXCEPT ![LifecycleTask] = id]
            /\ lifecycle' =
                 [NoLifecycle EXCEPT !.op = op, !.pc = "hook",
                    !.hook = m.hook, !.onError = m.onError, !.userId = u,
                    !.calls.hook = 1]
  /\ UNCHANGED << kind, args, plan, pc, task, race, elapsed, due,
                  abortTimeout, aborted, firedAt, hooks, calls, error, result,
                  replyVars, seen, connVars, devVars >>

HandleUserOnline == HandleUserPresence("online", LifecycleHooks, {"A", "B"})

HandleUserOffline == HandleUserPresence("offline", LifecycleHooks, {"A", "B"})

\* part_004 lines 309-321, 335-347, 362-374: the hook settled; if it threw,
\* onError is called when the common middleware has it.
SettleLifecycleHook ==
  /\ lifecycle.pc = "hook"
  /\ lifecycle' =
       IF lifecycle.hook = "throw" /\ lifecycle.onError # "absent"
       THEN [lifecycle EXCEPT !.pc = "onError", !.calls.onError = 1]
       ELSE [lifecycle EXCEPT !.pc = "done", !.outcome = "resolved"]
  /\ UNCHANGED << kind, args, plan, pc, task, race, elapsed, due,
                  abortTimeout, aborted, firedAt, hooks, calls, error, result,
                  replyVars, ctxs, store, seen, connVars, devVars >>

\* An onError whose failure escapes the function.
LifecycleOnErrorEscapes ==
  /\ lifecycle.pc = "onError"
  /\ lifecycle' =
       [lifecycle EXCEPT !.pc = "done",
          !.outcome = IF lifecycle.onError = "throw" THEN "rejected"
                      ELSE "resolved"]
  /\ UNCHANGED << kind, args, plan, pc, task, race, elapsed, due,
                  abortTimeout, aborted, firedAt, hooks, calls, error, result,
                  replyVars, ctxs, store, seen, connVars, devVars >>

\* part_004 lines 312-320, 338-346, 365-373: onError settled; what it threw
\* is logged.
SettleLifecycleOnError ==
  /\ lifecycle.pc = "onError"
  /\ lifecycle' = [lifecycle EXCEPT !.pc = "done", !.outcome = "resolved"]
  /\ UNCHANGED << kind, args, plan, pc, task, race, elapsed, due,
                  abortTimeout, aborted, firedAt, hooks, calls, error, result,
                  replyVars, ctxs, store, seen, connVars, devVars >>

LifecycleStep ==
  \/ OnMessageSentAsync
  \/ HandleUserOnline
  \/ HandleUserOffline
  \/ SettleLifecycleHook
  \/ SettleLifecycleOnError

\* ------------------------------------------------ development: loadFunction

\* loadAndVerify, lines 51-64: what it returns, or the error it throws.
\* `a || b` is b when a is falsy; typeof null and typeof [] are "object".
LoadAndVerify(exports) ==
  LET Truthy(k) == k \notin {"undefined", "null", "empty", "zero", "false"}
      TypeOf(k) == CASE k \in {"null", "object", "array"} -> "object"
                     [] k \in {"string", "empty"} -> "string"
                     [] k \in {"number", "zero"} -> "number"
                     [] k = "false" -> "boolean"
                     [] OTHER -> k
      handler == IF Truthy(exports.handler) THEN exports.handler
                 ELSE exports.default
      config == IF Truthy(exports.config) THEN exports.config ELSE "object"
  IN  IF ~exports.compiles
      THEN \* line 51: loadModule throws
           [threw |-> "load", config |-> NoExport, handler |-> NoExport]
      ELSE IF TypeOf(handler) # "function"
      THEN [threw |-> "function", config |-> NoExport, handler |-> NoExport]
      ELSE IF TypeOf(config) # "object"
      THEN [threw |-> "config", config |-> NoExport, handler |-> NoExport]
      ELSE [threw |-> "none",
            config |-> [kind |-> config, version |-> exports.version],
            handler |-> [kind |-> handler, version |-> exports.version]]

\* Object.assign(target, source): every own property of source is written
\* into target, which stays the same object.
ObjectAssign(target, source) ==
  [k \in DOMAIN target \cup DOMAIN source |->
     IF k \in DOMAIN source THEN source[k] ELSE target[k]]

\* loadFunction(filename, watch), lines 15-36.  A failed first load throws.
\* born is the content of `loaded` when line 16 made it; line 36 returns
\* the identifier `exports`, the CommonJS exports of loadFunction.ts itself.
LoadFunction(exports, watch) ==
  /\ fn.pc = "unloaded"
  /\ LET r == LoadAndVerify(exports)
         made == [config |-> r.config, handler |-> r.handler]
     IN  fn' = IF r.threw # "none"
               THEN [fn EXCEPT !.pc = "failed", !.module = exports,
                               !.failure = r.threw, !.returned = "threw"]
               ELSE [fn EXCEPT !.pc = "loaded", !.module = exports,
                               !.watch = watch, !.loaded = made,
                               !.born = made, !.returned = "exports"]
  /\ UNCHANGED << kind, args, plan, pc, task, race, elapsed, due,
                  abortTimeout, aborted, firedAt, hooks, calls, error,
                  result, ctxs, store, seen, replyVars, connVars, lifecycle,
                  loader, toolVars >>

\* A change handler that gives up watching when a reload fails.
OnChangeStopsOnFailure(edit) ==
  /\ fn.pc = "loaded"
  /\ fn.watch
  /\ fn.reloads < MaxReloads
  /\ LET exports == [handler |-> edit.handler, default |-> edit.default,
                     config |-> edit.config, compiles |-> edit.compiles,
                     version |-> fn.module.version + 1]
         r == LoadAndVerify(exports)
     IN  fn' = [fn EXCEPT !.module = exports, !.failure = r.threw,
                          !.reloads = @ + 1, !.watch = (r.threw = "none"),
                          !.loaded = IF r.threw = "none"
                                     THEN [config |-> r.config,
                                           handler |-> r.handler]
                                     ELSE @]
  /\ UNCHANGED << kind, args, plan, pc, task, race, elapsed, due,
                  abortTimeout, aborted, firedAt, hooks, calls, error,
                  result, ctxs, store, seen, replyVars, connVars, lifecycle,
                  loader, toolVars >>

\* watcher.on("change"), lines 20-33: the source was edited; the reload is
\* merged into `loaded`, and a reload that throws is only logged.
OnChange(edit) ==
  /\ fn.pc = "loaded"
  /\ fn.watch
  /\ fn.reloads < MaxReloads
  /\ LET exports == [handler |-> edit.handler, default |-> edit.default,
                     config |-> edit.config, compiles |-> edit.compiles,
                     version |-> fn.module.version + 1]
         r == LoadAndVerify(exports)
     IN  fn' = IF r.threw # "none"
               THEN [fn EXCEPT !.module = exports, !.failure = r.threw,
                               !.reloads = @ + 1]
               ELSE [fn EXCEPT !.module = exports, !.failure = "none",
                               !.reloads = @ + 1,
                               !.loaded = ObjectAssign(@,
                                 [config |-> r.config,
                                  handler |-> r.handler])]
  /\ UNCHANGED << kind, args, plan, pc, task, race, elapsed, due,
                  abortTimeout, aborted, firedAt, hooks, calls, error,
                  result, ctxs, store, seen, replyVars, connVars, lifecycle,
                  loader, toolVars >>

\* ----------------------------------------------- development: moduleLoader

\* path.relative(from, to): ".." for every segment of from past the common
\* prefix, then the rest of to.
Relative(from, to) ==
  LET Common(k) == \A j \in 1..k : from[j] = to[j]
      n == CHOOSE k \in 0..Min(Len(from), Len(to)) :
             /\ Common(k)
             /\ \A m \in (k + 1)..Min(Len(from), Len(to)) : ~Common(m)
  IN  [j \in 1..(Len(from) - n) |-> ".."] \o SubSeq(to, n + 1, Len(to))

\* relative.startsWith(dir + "/"): the first segment is dir and more follow.
StartsWith(relative, dir) == Len(relative) > 1 /\ relative[1] = dir

\* isInsideProjectDir, lines 51-53.
IsInsideProjectDir(filename) ==
  ~StartsWith(Relative(Dirname, filename), "..")

\* pirates' addHook: the hooks see .js, .jsx, .ts, .tsx and .json files that
\* have no node_modules segment in their path.
Hooked(filename) ==
  /\ filename[Len(filename)] \in {"index.js", "a.ts", "p.js", "q.js", "x.js",
                                  "y.js"}
  /\ \A j \in 1..Len(filename) : filename[j] # "node_modules"

\* A clearRequireCache that would drop every entry.
EvictEverything(filename) == TRUE

\* clearRequireCache, lines 72-78: whether the entry is deleted.
Evict(filename) ==
  LET relative == Relative(Dirname, filename)
  IN  ~StartsWith(relative, "node_modules") /\ ~StartsWith(relative, "..")

\* moduleLoader({dirname, onReload}), lines 10-26 and 107-129.
ModuleLoader(onReload) ==
  /\ ~loader.installed
  /\ loader' = [loader EXCEPT !.installed = TRUE, !.onReload = onReload]
  /\ UNCHANGED << kind, args, plan, pc, task, race, elapsed, due,
                  abortTimeout, aborted, firedAt, hooks, calls, error,
                  result, ctxs, store, seen, replyVars, connVars, lifecycle,
                  fn, toolVars >>

\* require(filename) of a file that is not cached.  A hooked file goes
\* through watchOver (lines 35-49), which throws for a file outside the
\* project, and through compileSourceFile (lines 86-105); Node caches a
\* module only when its load did not throw.
Require(filename) ==
  /\ loader.installed
  /\ filename \notin loader.cache
  /\ loader' =
       IF ~Hooked(filename)
       THEN [loader EXCEPT !.cache = @ \cup {filename}]
       ELSE IF ~IsInsideProjectDir(filename)
       THEN [loader EXCEPT !.threw = 1]
       ELSE [loader EXCEPT
               !.cache = @ \cup {filename},
               !.sourceMaps = @ \cup {filename},
               !.watchers = IF loader.onReload
                            THEN @ \cup {[filename |-> filename,
                                          signal |-> loader.signal]}
                            ELSE @]
  /\ UNCHANGED << kind, args, plan, pc, task, race, elapsed, due,
                  abortTimeout, aborted, firedAt, hooks, calls, error,
                  result, ctxs, store, seen, replyVars, connVars, lifecycle,
                  fn, toolVars >>

\* A test of the watcher's signal that never finds it aborted.
SignalStillLive(watcher) == FALSE

\* moduleLoader.ts line 58: signal.aborted, for the signal the watcher was
\* bound to.  Signals are numbered; abortAllWatchers aborts the current one
\* and installs the next.
WatcherAborted(watcher) == watcher.signal < loader.signal

\* onFileChanged(filename, signal), lines 55-63 with abortAllWatchers and
\* clearRequireCache: a change event of a watcher.  Signals are numbered;
\* those below loader.signal are aborted, and their late events are ignored.
\* evicted records what the last clearRequireCache deleted, notified the
\* signals of the watchers whose events called onReload.
OnFileChanged(watcher) ==
  /\ watcher \in loader.watchers
  /\ loader.events < MaxEvents
  /\ loader' =
       IF WatcherAborted(watcher)
       THEN [loader EXCEPT !.events = @ + 1]
       ELSE [loader EXCEPT
               !.events = @ + 1,
               !.reloads = @ + 1,
               !.notified = Append(@, watcher.signal),
               !.signal = @ + 1,
               !.cache = {f \in @ : ~Evict(f)},
               !.evicted = {f \in loader.cache : Evict(f)},
               !.sourceMaps = {}]
  /\ UNCHANGED << kind, args, plan, pc, task, race, elapsed, due,
                  abortTimeout, aborted, firedAt, hooks, calls, error,
                  result, ctxs, store, seen, replyVars, connVars, lifecycle,
                  fn, toolVars >>

\* ------------------------------------------------------------- dev server

\* onFileChange lines 172-173: the events and file names that reload.  A
\* file name is its dot-separated parts.
Reloads(event, filename) ==
  /\ event \in {"add", "change"}
  /\ Len(filename) > 1
  /\ filename[Len(filename)] \in {"ts", "tsx", "js", "jsx", "json"}

\* newWorker is called (lines 120-127): the call waits for the semaphore.
CallNewWorker ==
  [dev EXCEPT !.calls = Append(@, [pc |-> "acquire", worker |-> 0])]

\* devServer line 65: await newWorker(...), before anything is watched.
\* The process was started with a terminal as its standard input, or with
\* a pipe or a file.
DevServer(isTTY) ==
  /\ dev.calls = << >>
  /\ dev' = [CallNewWorker EXCEPT !.isTTY = isTTY]
  /\ UNCHANGED << kind, args, plan, pc, task, race, elapsed, due,
                  abortTimeout, aborted, firedAt, hooks, calls, error,
                  result, ctxs, store, seen, replyVars, connVars, lifecycle,
                  fn, loader, stack, call >>

\* onFileChange, lines 160-180: a chokidar event.  The watcher is installed
\* after the first newWorker call has returned (lines 65-75).
OnFileChange(event, filename) ==
  /\ dev.calls # << >> /\ dev.calls[1].pc = "done"
  /\ dev.events < MaxDevEvents
  /\ Reloads(event, filename) => Len(dev.calls) < MaxCalls
  /\ dev' = IF Reloads(event, filename)
            THEN [CallNewWorker EXCEPT !.events = @ + 1]
            ELSE [dev EXCEPT !.events = @ + 1]
  /\ UNCHANGED << kind, args, plan, pc, task, race, elapsed, due,
                  abortTimeout, aborted, firedAt, hooks, calls, error,
                  result, ctxs, store, seen, replyVars, connVars, lifecycle,
                  fn, loader, stack, call >>

\* process.stdin.on("data"), lines 77-116: Ctrl+R (18) reloads, Ctrl+L (12)
\* and Enter (13) do not.
OnStdin(key) ==
  /\ dev.calls # << >> /\ dev.calls[1].pc = "done"
  /\ dev.keys < MaxDevEvents
  /\ key = 18 => Len(dev.calls) < MaxCalls
  /\ dev' = IF key = 18
            THEN [CallNewWorker EXCEPT !.keys = @ + 1]
            ELSE [dev EXCEPT !.keys = @ + 1]
  /\ UNCHANGED << kind, args, plan, pc, task, race, elapsed, due,
                  abortTimeout, aborted, firedAt, hooks, calls, error,
                  result, ctxs, store, seen, replyVars, connVars, lifecycle,
                  fn, loader, stack, call >>

\* newWorker lines 127-149: blockOnBuild.acquire() resolves for the call
\* that waited longest; it disconnects every worker of cluster.workers,
\* which removes them from it, forks a worker and waits for it.  Line 147
\* comes between: setRawMode is not a function of a standard input that is
\* no terminal, the call throws there and never reaches line 157.
Acquire(c) ==
  /\ c \in 1..Len(dev.calls)
  /\ dev.calls[c].pc = "acquire"
  /\ \A b \in 1..(c - 1) : dev.calls[b].pc # "acquire"
  /\ dev.sema > 0
  /\ dev' = [dev EXCEPT
       !.sema = @ - 1,
       !.workers = Append([w \in 1..Len(@) |-> [@[w] EXCEPT !.connected = FALSE]],
                          [state |-> "building", connected |-> TRUE]),
       !.calls[c] = [pc |-> IF dev.isTTY THEN "await" ELSE "threw",
                     worker |-> Len(dev.workers) + 1]]
  /\ UNCHANGED << kind, args, plan, pc, task, race, elapsed, due,
                  abortTimeout, aborted, firedAt, hooks, calls, error,
                  result, ctxs, store, seen, replyVars, connVars, lifecycle,
                  fn, loader, stack, call >>

\* newWorker lines 151-157: the promise the call awaits resolves, and the
\* call releases the semaphore.
Released(newWorkers, w) ==
  [c \in 1..Len(newWorkers) |->
     IF newWorkers[c].pc = "await" /\ newWorkers[c].worker = w
     THEN [newWorkers[c] EXCEPT !.pc = "done"] ELSE newWorkers[c]]

\* The permits given back when worker w's message or exit arrives.
Permits(w) ==
  Cardinality({c \in 1..Len(dev.calls) :
                 dev.calls[c].pc = "await" /\ dev.calls[c].worker = w})

\* Lines 188-191 and newWorker line 153: the worker has built the
\* project and sends "ready"; a worker that was disconnected has no channel
\* to send it on.
WorkerReady(w) ==
  /\ w \in 1..Len(dev.workers)
  /\ dev.workers[w].state = "building"
  /\ dev' = IF dev.workers[w].connected
            THEN [dev EXCEPT !.workers[w].state = "ready",
                             !.calls = Released(@, w),
                             !.sema = @ + Permits(w)]
            ELSE [dev EXCEPT !.workers[w].state = "ready"]
  /\ UNCHANGED << kind, args, plan, pc, task, race, elapsed, due,
                  abortTimeout, aborted, firedAt, hooks, calls, error,
                  result, ctxs, store, seen, replyVars, connVars, lifecycle,
                  fn, loader, stack, call >>

\* newWorker line 155: the worker exits, because the build failed
\* (lines 213-217), it crashed, or it was disconnected or killed.
WorkerExit(w) ==
  /\ w \in 1..Len(dev.workers)
  /\ dev.workers[w].state \in {"building", "ready"}
  /\ dev' = [dev EXCEPT
       !.workers[w] = [state |-> IF @.state = "building" THEN "failed"
                                 ELSE "exited",
                       connected |-> FALSE],
       !.calls = Released(@, w),
       !.sema = @ + Permits(w)]
  /\ UNCHANGED << kind, args, plan, pc, task, race, elapsed, due,
                  abortTimeout, aborted, firedAt, hooks, calls, error,
                  result, ctxs, store, seen, replyVars, connVars, lifecycle,
                  fn, loader, stack, call >>

\* ------------------------------------------------------------ deployStack

\* A status that stands for one update only.
OnlyUpdating(status) == status = << "UPDATE", "IN", "PROGRESS" >>

\* status?.endsWith("_IN_PROGRESS"), lines 203, 261 and 378.
InProgress(status) ==
  /\ Len(status) > 2
  /\ SubSeq(status, Len(status) - 1, Len(status)) = << "IN", "PROGRESS" >>

\* Line 234: the statuses of a successful deploy.
Successful(status) ==
  status \in {<< "UPDATE", "COMPLETE" >>, << "CREATE", "COMPLETE" >>}

\* useChangeSet lines 276-281: createChangeSet.  CloudFormation refuses it
\* (accepted is FALSE) or makes the change set; a change set of type CREATE
\* puts the stack it creates under review.
CreateChangeSet(st, isCreating, accepted) ==
  IF accepted
  THEN [st EXCEPT !.pc = "changeSet", !.isCreating = isCreating,
                  !.created = @ + 1,
                  !.status = IF isCreating /\ @ = NotFound
                             THEN << "REVIEW", "IN", "PROGRESS" >> ELSE @]
  ELSE [st EXCEPT !.pc = "done", !.isCreating = isCreating,
                  !.result = "threw"]

\* deployStack lines 200-219: findStack reads the status.  The first call
\* finds the stack as others left it, a later call as the last one did.
DeployStack(existing, accepted) ==
  /\ stack.pc \in {"idle", "done"}
  /\ stack.deploys < MaxDeploys
  /\ stack.pc = "done" => existing = stack.status
  /\ LET st == [NoStack EXCEPT !.deploys = stack.deploys + 1,
                               !.status = existing, !.initial = existing]
     IN  stack' =
           IF InProgress(existing)
           THEN [st EXCEPT !.pc = "done", !.result = "threw"]
           ELSE IF existing \in {<< "ROLLBACK", "COMPLETE" >>,
                                 << "DELETE", "FAILED" >>}
           THEN [st EXCEPT !.pc = "recover",
                           !.status = << "DELETE", "IN", "PROGRESS" >>]
           ELSE CreateChangeSet(st, existing = NotFound, accepted)
  /\ UNCHANGED << kind, args, plan, pc, task, race, elapsed, due,
                  abortTimeout, aborted, firedAt, hooks, calls, error,
                  result, ctxs, store, seen, replyVars, connVars, lifecycle,
                  fn, loader, dev, call >>

\* CloudFormation ends what is in progress; a stack under review stays so.
StackSettles(status) ==
  /\ InProgress(stack.status)
  /\ stack.status[1] # "REVIEW"
  /\ status \in
       CASE stack.status[1] = "DELETE" ->
              {NotFound, << "DELETE", "FAILED" >>}
         [] stack.status[1] = "CREATE" ->
              {<< "CREATE", "COMPLETE" >>, << "CREATE", "FAILED" >>,
               << "ROLLBACK", "IN", "PROGRESS" >>}
         [] stack.status[1] = "ROLLBACK" -> {<< "ROLLBACK", "COMPLETE" >>}
         [] stack.status = << "UPDATE", "IN", "PROGRESS" >> ->
              {<< "UPDATE", "COMPLETE", "CLEANUP", "IN", "PROGRESS" >>,
               << "UPDATE", "ROLLBACK", "IN", "PROGRESS" >>}
         [] stack.status
              = << "UPDATE", "COMPLETE", "CLEANUP", "IN", "PROGRESS" >> ->
              {<< "UPDATE", "COMPLETE" >>}
         [] OTHER -> {<< "UPDATE", "ROLLBACK", "COMPLETE" >>,
                      << "UPDATE", "ROLLBACK", "FAILED" >>}
  /\ stack' = [stack EXCEPT !.status = status]
  /\ UNCHANGED << kind, args, plan, pc, task, race, elapsed, due,
                  abortTimeout, aborted, firedAt, hooks, calls, error,
                  result, ctxs, store, seen, replyVars, connVars, lifecycle,
                  fn, loader, dev, call >>

\* recoverFromFailedDeploy lines 259-263, then deployStack lines 212-219:
\* the poll that finds the deleted stack no longer in progress.
RecoverFromFailedDeploy(accepted) ==
  /\ stack.pc = "recover"
  /\ ~InProgress(stack.status)
  /\ stack' = CreateChangeSet(stack, TRUE, accepted)
  /\ UNCHANGED << kind, args, plan, pc, task, race, elapsed, due,
                  abortTimeout, aborted, firedAt, hooks, calls, error,
                  result, ctxs, store, seen, replyVars, connVars, lifecycle,
                  fn, loader, dev, call >>

\* useChangeSet lines 283-308, then deployStack lines 220-226: the
\* describeChangeSet that finds the change set CREATE_COMPLETE or FAILED
\* (any other status sleeps and asks again), and whether the signal was
\* aborted meanwhile.
UseChangeSet(status, changes, signalAborted) ==
  /\ stack.pc = "changeSet"
  /\ stack' =
       IF status = "CREATE_COMPLETE"
       THEN [stack EXCEPT
               !.executed = @ + 1,
               !.status = IF stack.isCreating
                          THEN << "CREATE", "IN", "PROGRESS" >>
                          ELSE << "UPDATE", "IN", "PROGRESS" >>,
               !.pc = IF signalAborted THEN "done" ELSE "wait",
               !.result = IF signalAborted THEN "threw" ELSE @]
       ELSE [stack EXCEPT
               !.pc = "done",
               !.result = IF changes = 0 /\ ~signalAborted
                          THEN "null" ELSE "threw"]
  /\ UNCHANGED << kind, args, plan, pc, task, race, elapsed, due,
                  abortTimeout, aborted, firedAt, hooks, calls, error,
                  result, ctxs, store, seen, replyVars, connVars, lifecycle,
                  fn, loader, dev, call >>

\* waitForStackUpdate lines 367-393, then deployStack lines 233-250: the
\* poll that finds the stack no longer in progress.
WaitForStackUpdate ==
  /\ stack.pc = "wait"
  /\ ~InProgress(stack.status)
  /\ stack' = [stack EXCEPT
       !.pc = "done",
       !.final = stack.status,
       !.result = IF Successful(stack.status) THEN "id" ELSE "threw"]
  /\ UNCHANGED << kind, args, plan, pc, task, race, elapsed, due,
                  abortTimeout, aborted, firedAt, hooks, calls, error,
                  result, ctxs, store, seen, replyVars, connVars, lifecycle,
                  fn, loader, dev, call >>

\* ----------------------------------------------------------- deployLambda

\* /^[a-zA-Z0-9-]{1,40}$/.test(input)
ProjectNameTest(input) ==
  /\ Len(input) \in 1..MaxProjectName
  /\ \A i \in 1..Len(input) :
       input[i] \in (48..57) \cup (65..90) \cup (97..122) \cup {45}

\* initProject, the prompt's validate (part_005 lines 50-53): true, or the
\* message that asks for another name.
InitProject(input) ==
  /\ call' = [op |-> "initProject", input |-> input, output |-> << >>,
              outcome |-> IF ProjectNameTest(input) THEN "accepted"
                          ELSE "invalid"]
  /\ UNCHANGED << kind, args, plan, pc, task, race, elapsed, due,
                  abortTimeout, aborted, firedAt, hooks, calls, error,
                  result, ctxs, store, seen, replyVars, connVars, lifecycle,
                  fn, loader, dev, stack >>

\* deployLambda lines 476-495: the check of the project name, then the
\* lambda's name (the codes of "qr-" and the project) and buildProject.
\* !project is true of the empty string alone.
DeployLambda(project) ==
  /\ call' = IF project = << >> /\ ProjectNameTest(project)
             THEN [op |-> "deployLambda", input |-> project,
                   output |-> << >>, outcome |-> "threw"]
             ELSE [op |-> "deployLambda", input |-> project,
                   output |-> << 113, 114, 45 >> \o project,
                   outcome |-> "built"]
  /\ UNCHANGED << kind, args, plan, pc, task, race, elapsed, due,
                  abortTimeout, aborted, firedAt, hooks, calls, error,
                  result, ctxs, store, seen, replyVars, connVars, lifecycle,
                  fn, loader, dev, stack >>

\* -------------------------------------------------------------------- url

\* replaceBracket, url.ts lines 105-111: path.replace with the global
\* pattern /(^|\/)\[(.+?)\](\/|\?|#|$)/g.  A match starts at the first
\* character when that is "[", or at a "/" that a "[" follows; its name is
\* the shortest run of one or more characters followed by "]" and then by
\* "/", "?", "#" or the end; the match takes that character with it, and the
\* search goes on after the match.
ReplaceBracket(path) ==
  LET n == Len(path)
      Bracket(p) ==
        IF p = 1 /\ path[1] = 91 THEN 1
        ELSE IF p < n /\ path[p] = 47 /\ path[p + 1] = 91 THEN p + 1
        ELSE 0
      Ends(b) ==
        {e \in (b + 1)..(n - 1) :
           /\ path[e + 1] = 93
           /\ e + 1 = n \/ path[e + 2] \in {47, 63, 35}}
      First(S) == CHOOSE x \in S : \A y \in S : x <= y
      RECURSIVE Replace(_)
      Replace(from) ==
        LET starts == {p \in from..n :
                         Bracket(p) > 0 /\ Ends(Bracket(p)) # {}}
        IN  IF starts = {} THEN SubSeq(path, from, n)
            ELSE LET b == Bracket(First(starts))
                     e == First(Ends(b))
                     name == SubSeq(path, b + 1, e)
                     stop == IF e + 1 = n THEN n ELSE e + 2
                 IN  SubSeq(path, from, b - 1) \o << 58 >>
                       \o (IF Len(name) >= 3
                              /\ SubSeq(name, 1, 3) = << 46, 46, 46 >>
                           THEN SubSeq(name, 4, Len(name)) \o << 42 >>
                           ELSE name)
                       \o SubSeq(path, e + 2, stop)
                       \o Replace(stop + 1)
  IN  Replace(1)

\* url, lines 58-68: the path that is handed to path-to-regexp's compile.
Url(pathname) ==
  /\ call' = [op |-> "url", input |-> pathname,
              output |-> ReplaceBracket(pathname), outcome |-> "replaced"]
  /\ UNCHANGED << kind, args, plan, pc, task, race, elapsed, due,
                  abortTimeout, aborted, firedAt, hooks, calls, error,
                  result, ctxs, store, seen, replyVars, connVars, lifecycle,
                  fn, loader, dev, stack >>

\* ------------------------------------------------------- specifications

\* One queue job, from any inputs.
NextQueue == HandleQueuedJob(1) \/ QueueStep(1)

SpecQueue == Init /\ [][NextQueue]_vars

\* One queue job under the scheduler's guarantees: a settled promise's
\* continuation runs, a due timer fires, time passes, and the user's hooks
\* settle.
FairQueue == SpecQueue /\ WF_vars(QueueStep(1))

\* Two HTTP requests through asFetchRequest, with any handlers.
NextHttp ==
  \E i \in Invocations : AsFetchRequest(i) \/ AsFetchRequestReplies(i)

SpecHttp == Init /\ [][NextHttp]_vars

\* One WebSocket connection, with any common middleware, and one message on
\* it, with any route.
NextSocket ==
  \/ OnUpgrade
  \/ ConnectStep
  \/ HandleWebSocketMessage(1)
  \/ SocketStep(1)

SpecSocket == Init /\ [][NextSocket]_vars

\* The process at large: one WebSocket connection and two concurrent
\* invocations, each a queue job, a socket message or an HTTP request, whose
\* steps interleave freely.  The handlers and middleware are drawn from a
\* few representatives of each behaviour.
SomeQueuePlans ==
  { [out |-> "return", t |-> 1000], [out |-> "hang", t |-> 0] }

SomeSocketPlans ==
  { [out |-> "throw", t |-> 1000], [out |-> "hang", t |-> 0] }

SomeErrors ==
  { Value("Error", 0, "", << 72 >>, NoJson),
    Value("Error", 0, "", << 72, 105 >>, NoJson) }

SomeValues == { Value("string", 0, "", << 72, 105 >>, NoJson) }

SomeSocketHooks ==
  { [NoHooks EXCEPT !.onError = "return", !.onMessageReceived = "return",
                    !.onMessageSent = "return"] }

SomeCommonMiddlewares ==
  { [authenticate |-> "return", user |-> AuthUser("object", TRUE, "A"),
     thrown |-> NoValue, onError |-> "return"],
    [authenticate |-> "throw", user |-> AuthUser("null", FALSE, ""),
     thrown |-> Value("Response", 401, "", Unauthorized, NoJson),
     onError |-> "return"] }

Step(i) ==
  \/ HandleQueuedJobFrom(i, {5}, {DevRemainingTime}, {"A", "B"}, SomeQueuePlans,
                         {DefaultHooks})
  \/ HandleWebSocketMessageFrom(i, RouteTimeouts, SomeSocketPlans, SomeValues,
                                SomeErrors, SomeSocketHooks)
  \/ AsFetchRequestFrom(i, SomeValues, SomeErrors)
  \/ QueueStep(i)
  \/ SocketStep(i)
  \/ AsFetchRequestReplies(i)

Next ==
  \/ OnUpgradeFrom(SomeCommonMiddlewares)
  \/ ConnectStep
  \/ \E i \in Invocations : Step(i)

Spec == Init /\ [][Next]_vars

\* One invocation through either entry point, a queue job or a socket
\* message, with any handler and any middleware.
NextInvocation ==
  \/ HandleQueuedJob(1)
  \/ QueueStep(1)
  \/ OnUpgradeFrom(SomeCommonMiddlewares)
  \/ ConnectStep
  \/ HandleWebSocketMessage(1)
  \/ SocketStep(1)

SpecInvocation == Init /\ [][NextInvocation]_vars

\* Two concurrent queue jobs on the same queue.
NextJobs ==
  \E i \in Invocations :
    \/ HandleQueuedJobFrom(i, {5}, {DevRemainingTime}, {"A"}, HandlerPlans,
                           {DefaultHooks, NoHooks})
    \/ QueueStep(i)

SpecJobs == Init /\ [][NextJobs]_vars

\* One connection and one message on it, beside a push, a user coming
\* online or a user going offline, with any common middleware hooks.
NextLifecycle ==
  \/ OnUpgradeFrom(SomeCommonMiddlewares)
  \/ ConnectStep
  \/ HandleWebSocketMessageFrom(1, RouteTimeouts, SomeSocketPlans, SomeValues,
                                SomeErrors, SocketHooks)
  \/ SocketStep(1)
  \/ LifecycleStep

SpecLifecycle == Init /\ [][NextLifecycle]_vars

\* One function loaded by the builder and hot-reloaded while it is watched.
NextFunction ==
  \/ \E exports \in Modules, watch \in BOOLEAN : LoadFunction(exports, watch)
  \/ \E edit \in SomeModules : OnChange(edit)

SpecFunction == Init /\ [][NextFunction]_vars

\* One development session of the module loader.
NextLoader ==
  \/ \E onReload \in BOOLEAN : ModuleLoader(onReload)
  \/ \E filename \in Files : Require(filename)
  \/ \E watcher \in loader.watchers : OnFileChanged(watcher)

SpecLoader == Init /\ [][NextLoader]_vars


\* The dev server: reloads by file changes and by Ctrl+R.
NextDev ==
  \/ \E isTTY \in BOOLEAN : DevServer(isTTY)
  \/ \E event \in {"add", "change", "unlink"},
        filename \in {<< "index", "ts" >>, << "README", "md" >>,
                      << "data", "json" >>, << "ts" >>} :
       OnFileChange(event, filename)
  \/ \E key \in {12, 13, 18} : OnStdin(key)
  \/ \E c \in 1..MaxCalls : Acquire(c)
  \/ \E w \in 1..MaxCalls : WorkerReady(w)
  \/ \E w \in 1..MaxCalls : WorkerExit(w)

SpecDev == Init /\ [][NextDev]_vars

\* Every forked worker reports "ready" or exits, and a semaphore that has a
\* permit hands it to the call that waits.
FairDev ==
  /\ SpecDev
  /\ \A c \in 1..MaxCalls :
       /\ WF_vars(Acquire(c))
       /\ WF_vars(WorkerReady(c) \/ WorkerExit(c))

\* Deploys of one stack, and CloudFormation.
NextStack ==
  \/ \E existing \in StackStatuses, accepted \in BOOLEAN :
       DeployStack(existing, accepted)
  \/ \E status \in StackStatuses : StackSettles(status)
  \/ \E accepted \in BOOLEAN : RecoverFromFailedDeploy(accepted)
  \/ \E status \in {"CREATE_COMPLETE", "FAILED"}, changes \in {0, 1},
        signalAborted \in BOOLEAN :
       UseChangeSet(status, changes, signalAborted)
  \/ WaitForStackUpdate

SpecStack == Init /\ [][NextStack]_vars

\* Project names, as the prompt and as the deploy take them.
NextLambda ==
  \/ \E input \in ProjectNames : InitProject(input)
  \/ \E project \in ProjectNames : DeployLambda(project)

SpecLambda == Init /\ [][NextLambda]_vars

\* URLs made for paths with bracket segments.
NextUrl == \E pathname \in Pathnames : Url(pathname)

SpecUrl == Init /\ [][NextUrl]_vars

\* ------------------------------------------------------------- claims

\* The job's handler was called and never settles.
HandlerHangs(i) ==
  kind[i] = "queue" /\ calls[i].handler = 1 /\ plan[i].out = "hang"

\* C1: if the queue handler never settles, then once the abort timer has
\* fired handleQueuedJob eventually returns false; it never returns true and
\* it does not stay pending.
C1_TimedOutJobReturnsFalse ==
  \A i \in Invocations :
    /\ [](HandlerHangs(i) => result[i] # "true")
    /\ (HandlerHangs(i) /\ firedAt[i] >= 0)
         ~> (pc[i] = "done" /\ result[i] = "false")

C1_Witness ==
  \E i \in Invocations :
    HandlerHangs(i) /\ firedAt[i] >= 0 /\ pc[i] = "done" /\ result[i] = "false"

\* The job passed the queue lookup and the budget check.
JobStarted(i) ==
  /\ kind[i] = "queue"
  /\ args[i].known
  /\ Min(args[i].timeout * 1000, args[i].remainingTime) > 0

\* C2: the abort timer fires exactly min(declared timeout, remaining time)
\* after the job started, both in milliseconds: when it fires it fires at
\* that time, and no job is still waiting for its race after that time.
C2_TimerIsMinOfTimeoutAndBudget ==
  \A i \in Invocations :
    JobStarted(i) =>
      LET budget == Min(args[i].timeout * 1000, args[i].remainingTime) IN
      /\ firedAt[i] >= 0 => firedAt[i] = budget
      /\ pc[i] = "race" /\ race[i] = "pending" => elapsed[i] <= budget

\* C3: when min(declared timeout, remainingTime) is zero or negative,
\* handleQueuedJob has returned false and neither onJobStarted, the handler,
\* onJobFinished (nor onError) was invoked.
C3_NoBudgetNoCalls ==
  \A i \in Invocations :
    ( /\ kind[i] = "queue"
      /\ args[i].known
      /\ Min(args[i].timeout * 1000, args[i].remainingTime) <= 0 )
    => /\ pc[i] = "done"
       /\ result[i] = "false"
       /\ calls[i] = NoCalls
       /\ task[i] = "none"

C3_Witness ==
  \E i \in Invocations :
    /\ kind[i] = "queue"
    /\ args[i].known
    /\ args[i].timeout > 0
    /\ args[i].remainingTime = 0
    /\ pc[i] = "done"
    /\ result[i] = "false"

\* C4: a failure of onJobStarted or onJobFinished never changes the job's
\* outcome: if one of them throws, the handler returns normally and the timer
\* never fires, the handler has run and handleQueuedJob returns true.
C4_HookFailureKeepsOutcome ==
  \A i \in Invocations :
    ( /\ JobStarted(i)
      /\ pc[i] = "done"
      /\ plan[i].out = "return"
      /\ firedAt[i] < 0
      /\ \/ hooks[i].onJobStarted = "throw"
         \/ hooks[i].onJobFinished = "throw" )
    => /\ calls[i].handler = 1
       /\ result[i] = "true"

\* The invocation has an execution context of its own.
HasContext(i) == kind[i] \in {"queue", "socket"} /\ store[i] # 0

\* C5: two concurrent invocations (queue jobs and/or socket messages) never
\* observe each other's execution context: each has a context object of its
\* own, and the user a handler reads from the context is the user its own
\* invocation wrote there, however the two invocations interleave.
C5_ContextIsolation ==
  \A i \in Invocations :
    /\ HasContext(i) /\ seen[i] # "unread" => seen[i] = args[i].user
    /\ \A j \in Invocations :
         HasContext(i) /\ HasContext(j) /\ i # j => store[i] # store[j]

C5_Witness ==
  /\ HasContext(1) /\ HasContext(2)
  /\ args[1].user = "A" /\ args[2].user = "B"
  /\ pc[1] # "done" /\ pc[2] # "done"
  /\ seen[1] = "A" /\ seen[2] = "B"

\* The HTTP handler of invocation i threw a Response and the reply is built.
ThrewResponse(i) ==
  /\ kind[i] = "http" /\ pc[i] = "done"
  /\ plan[i].out = "throw" /\ value[i].type = "Response"

\* C6: when the HTTP handler throws a Response with status S and body B, the
\* reply of asFetchRequest has statusCode S and the base64 encoding of B as
\* its body, for every S and B.
C6_ThrownResponseKeepsStatusAndBody ==
  \A i \in Invocations :
    ThrewResponse(i) =>
      /\ reply[i].statusCode = value[i].status
      /\ reply[i].body = Base64(value[i].body)
      /\ reply[i].bodyEncoding = "base64"

C6_Witness ==
  \E i \in Invocations :
    /\ ThrewResponse(i)
    /\ value[i].status = 422 /\ value[i].body = << 72, 255 >>
    /\ reply[i].statusCode = 422 /\ reply[i].body = << 83, 80, 56, 61 >>

\* The handler of invocation i threw something that is not a Response, and
\* the reply to that error is built.
ThrewError(i) ==
  /\ kind[i] \in {"http", "socket"} /\ pc[i] = "done"
  /\ plan[i].out = "throw" /\ value[i].type # "Response"
  /\ kind[i] = "socket" => error[i] = "thrown"

\* C7: the reply to a thrown value that is not a Response is a generic 500
\* whose body does not depend on the error: two invocations through the same
\* entry point that differ only in the thrown error have the same reply body.
C7_ErrorReplyIndependentOfMessage ==
  \A i, j \in Invocations :
    ( /\ ThrewError(i) /\ ThrewError(j)
      /\ kind[i] = kind[j] /\ hooks[i] = hooks[j] /\ args[i] = args[j] )
    => /\ reply[i].body = reply[j].body
       /\ kind[i] = "http" => reply[i].statusCode = 500

\* The HTTP handler of invocation i returned and the reply is built.
Returned(i) == kind[i] = "http" /\ pc[i] = "done" /\ plan[i].out = "return"

\* C8: asFetchRequest normalizes what the handler returns: a Response passes
\* through unchanged; a string or Buffer becomes a text/plain body with
\* status 200; null or undefined becomes an empty reply with status 204; any
\* other value becomes its JSON text with content type application/json and
\* status 200.
C8_ReturnValueNormalized ==
  \A i \in Invocations :
    Returned(i) =>
      LET v == value[i]
          r == reply[i]
      IN CASE v.type = "Response" ->
                /\ r.statusCode = v.status
                /\ r.contentType = v.contentType
                /\ r.body = Base64(v.body)
           [] v.type \in {"string", "Buffer"} ->
                /\ r.statusCode = 200
                /\ r.contentType = "text/plain"
                /\ r.body = Base64(v.body)
           [] v.type \in {"null", "undefined"} ->
                /\ r.statusCode = 204
                /\ r.body = << >>
           [] OTHER ->
                /\ r.statusCode = 200
                /\ r.contentType = "application/json"
                /\ r.body = Base64(JSONStringify(v.json))

C8_Witness ==
  /\ Returned(1) /\ Returned(2)
  /\ value[1].type = "undefined" /\ reply[1].statusCode = 204
  /\ value[2].type = "object"
  /\ value[2].json = JObj(<< << 105, 100 >> >>, << JNum(123) >>)
  /\ reply[2].contentType = "application/json"
  /\ reply[2].body = << 101, 121, 74, 112, 90, 67, 73, 54, 77, 84, 73, 122,
                        102, 81, 61, 61 >>

\* authenticate returned an object that has no id or an empty one.
ReturnedWithoutId ==
  /\ upgrade \notin {"none", "authenticate"}
  /\ commonMiddleware.authenticate = "return"
  /\ commonMiddleware.user.type = "object"
  /\ ~(commonMiddleware.user.hasId /\ commonMiddleware.user.id # "")

\* No handler has run or will be started on the connection.
NoHandlerRuns ==
  /\ upgrade # "accepted"
  /\ \A i \in Invocations : kind[i] = "none" /\ calls[i].handler = 0

\* C9: if authenticate returns an object without a non-empty id,
\* authenticateWebSocket ends with 403 Forbidden, no user is established for
\* the connection, and no handler ever runs for it.
C9_UserWithoutIdIsForbidden ==
  ReturnedWithoutId =>
    /\ authResult.how = "throw"
    /\ authResult.thrown.type = "Response"
    /\ authResult.thrown.status = 403
    /\ authResult.thrown.body = Forbidden
    /\ connUser = NoUser
    /\ NoHandlerRuns

C9_Witness ==
  /\ ReturnedWithoutId
  /\ commonMiddleware.user = AuthUser("object", TRUE, "")
  /\ authResult.thrown.status = 403
  /\ connResponse.status = 403
  /\ upgrade = "rejected"

\* authenticate threw and authenticateWebSocket has settled.
AuthenticateThrew ==
  /\ upgrade \notin {"none", "authenticate", "onError"}
  /\ commonMiddleware.authenticate = "throw"

\* C10: if authenticate throws, the outcome of authentication is an
\* authorization-denied response, with status 401 or 403, and no handler is
\* reached.
C10_AuthThrowIsDenied ==
  AuthenticateThrew =>
    /\ authResult.how = "throw"
    /\ authResult.thrown.status \in {401, 403}
    /\ NoHandlerRuns

\* C11: when authenticate throws a Response with status S and a body, the
\* outcome of authenticateWebSocket is a Response with that status and body.
C11_ThrownAuthResponseIsKept ==
  ( AuthenticateThrew /\ commonMiddleware.thrown.type = "Response" )
  => /\ authResult.how = "throw"
     /\ authResult.thrown.status = commonMiddleware.thrown.status
     /\ authResult.thrown.body = commonMiddleware.thrown.body

\* authenticate returned undefined and authenticateWebSocket has settled.
ReturnedUndefined ==
  /\ upgrade \notin {"none", "authenticate"}
  /\ commonMiddleware.authenticate = "return"
  /\ commonMiddleware.user.type = "undefined"

\* C12 as stated: an authenticate hook that returns undefined is treated as
\* one that returns null: authentication succeeds with no user and no error.
C12_UndefinedIsAnonymous ==
  ReturnedUndefined =>
    /\ authResult.how = "return"
    /\ authResult.user.type \in {"null", "undefined"}

\* C12, amended: an authenticate hook that returns undefined is refused like
\* a user without an id: authenticateWebSocket throws 403 Forbidden and no
\* user is established; only null stands for the anonymous user.
C12_UndefinedIsForbidden ==
  /\ ReturnedUndefined =>
       /\ authResult.how = "throw"
       /\ authResult.thrown.status = 403
       /\ authResult.thrown.body = Forbidden
       /\ connUser = NoUser
       /\ upgrade # "accepted"
  /\ ( /\ upgrade \notin {"none", "authenticate"}
       /\ commonMiddleware.authenticate = "return"
       /\ commonMiddleware.user.type = "null" )
     => authResult.how = "return" /\ authResult.user.type = "null"

C12_Witness ==
  /\ ReturnedUndefined
  /\ authResult.thrown.status = 403
  /\ upgrade = "rejected"

\* The catch block of invocation i called an onError that threw.
OnErrorThrew(i) ==
  /\ kind[i] \in {"queue", "socket"}
  /\ hooks[i].onError = "throw"
  /\ calls[i].onError = 1
  /\ pc[i] \in {"finally", "done"}

\* C13: a failure inside onError is swallowed.  When a queue job fails and
\* onError throws as well, handleQueuedJob resolves to false and does not
\* reject; when a socket message fails and onError throws, the reply is the
\* error reply for the original error, as if onError had not thrown.
C13_OnErrorFailureIsSwallowed ==
  \A i \in Invocations :
    OnErrorThrew(i) =>
      /\ kind[i] = "queue" => result[i] = "false"
      /\ kind[i] = "socket" =>
           /\ reply[i].type = "Buffer"
           /\ reply[i].body =
                JSONStringify(JObj(<< << 101, 114, 114, 111, 114 >> >>,
                                   << JStr(ErrorText(i)) >>))

C13_Witness ==
  \E i \in Invocations :
    /\ OnErrorThrew(i)
    /\ kind[i] = "queue"
    /\ plan[i].out = "throw" /\ error[i] = "thrown"
    /\ pc[i] = "done" /\ result[i] = "false"

\* The job of invocation i ended because its abort timer fired.
JobTimedOut(i) ==
  kind[i] = "queue" /\ pc[i] = "done" /\ error[i] = "timeout"

\* The job of invocation i ended because its handler threw.
JobHandlerThrew(i) ==
  /\ kind[i] = "queue" /\ pc[i] = "done"
  /\ plan[i].out = "throw" /\ error[i] = "thrown"

\* C14: what handleQueuedJob reports for a job that timed out differs from
\* what it reports for a job whose handler threw.
C14_TimeoutDistinctFromFailure ==
  \A i, j \in Invocations :
    JobTimedOut(i) /\ JobHandlerThrew(j) => result[i] # result[j]

\* The job of invocation i names a queue the manifest does not have.
UnknownQueue(i) == kind[i] = "queue" /\ pc[i] = "done" /\ ~args[i].known

\* C15: a job for a queue that is not in the manifest gets a "not found"
\* outcome returned; handleQueuedJob does not reject.
C15_UnknownQueueIsReturned ==
  \A i \in Invocations : UnknownQueue(i) => result[i] # "rejected"

\* handleResponse was called for the message of invocation i.
Responded(i) ==
  /\ kind[i] = "socket"
  /\ pc[i] \in {"onMessageSent", "finally", "done"}
  /\ reply[i].type = "Buffer"
  /\ error[i] \notin {"route", "parse"}

\* C16: a throwing onMessageSent never changes the reply of a socket
\* message: whether the hook is absent, returns or throws, the reply is the
\* serialized response of the handler, or the serialized error reply.
C16_OnMessageSentKeepsReply ==
  \A i \in Invocations :
    Responded(i) =>
      reply[i].body =
        IF error[i] = "none" THEN ResultToBuffer(value[i])
        ELSE JSONStringify(JObj(<< << 101, 114, 114, 111, 114 >> >>,
                                << JStr(ErrorText(i)) >>))

C16_Witness ==
  \E i \in Invocations :
    /\ Responded(i)
    /\ hooks[i].onMessageSent = "throw" /\ calls[i].onMessageSent = 1
    /\ pc[i] = "done"
    /\ plan[i].out = "return" /\ error[i] = "none"
    /\ value[i].type = "string" /\ reply[i].body = << 72, 105 >>

\* onMessageReceived threw for the message of invocation i, whose handler
\* would return in time.
OnMessageReceivedThrew(i) ==
  /\ kind[i] = "socket" /\ pc[i] = "done"
  /\ hooks[i].onMessageReceived = "throw"
  /\ calls[i].onMessageReceived = 1
  /\ plan[i].out = "return" /\ firedAt[i] < 0

\* C17: a throwing onMessageReceived never overrides the primary outcome:
\* the handler is still invoked and the reply is the handler's result.
C17_OnMessageReceivedKeepsOutcome ==
  \A i \in Invocations :
    OnMessageReceivedThrew(i) =>
      /\ calls[i].handler = 1
      /\ reply[i] = IF Falsy(value[i]) THEN NullReply
                    ELSE BufferReply(ResultToBuffer(value[i]))

\* C18: every outbound socket message is reported to onMessageSent exactly
\* once: a reply returned for a message on a route whose middleware has the
\* hook, and a push when the common middleware has the hook.
C18_EveryMessageIsReported ==
  /\ \A i \in Invocations :
       ( /\ kind[i] = "socket" /\ pc[i] = "done"
         /\ reply[i].type = "Buffer"
         /\ hooks[i].onMessageSent # "absent" )
       => calls[i].onMessageSent = 1
  /\ ( lifecycle.op = "push" /\ lifecycle.pc = "done"
       /\ lifecycle.hook # "absent" )
     => lifecycle.calls.hook = 1

\* handleUserOnline or handleUserOffline was called.
PresenceCalled == lifecycle.op \in {"online", "offline"}

\* C19: handleUserOnline and handleUserOffline never reject: they resolve
\* whether onOnline / onOffline returns or throws, and whether the onError
\* called for that failure returns or throws.
C19_PresenceIsBestEffort ==
  PresenceCalled =>
    /\ lifecycle.outcome # "rejected"
    /\ lifecycle.pc = "done" => lifecycle.outcome = "resolved"

C19_Witness ==
  /\ lifecycle.op = "offline"
  /\ lifecycle.hook = "throw" /\ lifecycle.onError = "throw"
  /\ lifecycle.calls.onError = 1
  /\ lifecycle.pc = "done" /\ lifecycle.outcome = "resolved"

\* C20: the connection is accepted only if handleWebSocketConnect returned a
\* status of 299 or less; if it returned a higher status or threw, the
\* connection is rejected, and no message is ever passed to
\* handleWebSocketMessage on a connection that is not accepted.
C20_AcceptedOnlyBelow300 ==
  /\ upgrade = "accepted" =>
       connResponse.type = "Response" /\ connResponse.status <= 299
  /\ upgrade = "rejected" =>
       connResponse = NoValue \/ connResponse.status > 299
  /\ \A i \in Invocations : kind[i] = "socket" => upgrade = "accepted"

C20_Witness ==
  /\ upgrade = "accepted" /\ connResponse.status = 200
  /\ kind[1] = "socket" /\ pc[1] = "done"

\* C21: the first load of a module throws whenever the export it selects
\* (handler, else default) is not a function or its config export is a
\* string, a number, a boolean or a function; and a load that succeeds
\* yields a function handler and an object config.
C21_BadExportsFailToLoad ==
  (fn.pc # "unloaded" /\ fn.reloads = 0) =>
    LET selected == IF fn.module.handler # "undefined"
                    THEN fn.module.handler ELSE fn.module.default
        structured == fn.module.config \in {"undefined", "null", "object",
                                            "array"}
    IN  /\ (selected # "function" \/ ~structured) => fn.pc = "failed"
        /\ fn.pc = "loaded" =>
             /\ fn.loaded.handler.kind = "function"
             /\ fn.loaded.config.kind \in {"object", "array"}

\* C22: the object that holds the loaded exports is never written after it
\* was made: whatever reloads follow, its content is the one it was made with.
C22_LoadedIsNeverMutated ==
  fn.pc = "loaded" => fn.loaded = fn.born

C24_OneFreshContextPerInvocation ==
  /\ \A i \in Invocations :
       /\ ( /\ kind[i] \in {"queue", "socket"}
            /\ \E h \in DOMAIN calls[i] : calls[i][h] > 0 ) => store[i] # 0
       /\ (kind[i] = "socket" /\ pc[i] = "done") => store[i] # 0
  /\ \A t, u \in Tasks : (store[t] # 0 /\ t # u) => store[t] # store[u]
  /\ Len(ctxs) = Cardinality({t \in Tasks : store[t] # 0})

C26_HooksInOrder ==
  /\ [](\A i \in Invocations :
          kind[i] = "queue" =>
            /\ calls[i].onJobStarted <= 1 /\ calls[i].handler <= 1
            /\ calls[i].onJobFinished <= 1
            /\ calls[i].handler = 1 => hooks[i].onJobStarted # "throw"
            /\ calls[i].onJobFinished = 1 =>
                 calls[i].handler = 1 /\ plan[i].out = "return")
  /\ [][\A i \in Invocations :
          /\ calls'[i].handler > calls[i].handler =>
               /\ kind[i] = "queue" => task[i] = "onJobStarted"
               /\ kind[i] = "queue" => ~aborted[i]
          /\ (kind[i] = "queue" /\ task'[i] = "onJobFinished"
                /\ task[i] # "onJobFinished") =>
               /\ task[i] = "handler" /\ plan[i].out = "return"
               /\ ~aborted[i]
          /\ calls'[i].onJobFinished > calls[i].onJobFinished =>
               task'[i] = "onJobFinished" /\ task[i] = "handler"]_vars

C26_Witness ==
  /\ kind[1] = "queue" /\ pc[1] = "done" /\ result[1] = "true"
  /\ hooks[1].onJobStarted = "return" /\ hooks[1].onJobFinished = "return"
  /\ calls[1].onJobStarted = 1 /\ calls[1].handler = 1
  /\ calls[1].onJobFinished = 1

\* C27: once the abort timer has fired, the job's result is false and
\* onError is called at most once; and when the handler settles after the
\* signal was aborted, that settlement changes nothing: the race keeps its
\* outcome, the result stays, and neither onJobFinished nor onError is called.
C27_LateSettlementIsDiscarded ==
  /\ [](\A i \in Invocations :
          (kind[i] = "queue" /\ firedAt[i] >= 0) =>
            /\ result[i] \in {"none", "false"}
            /\ pc[i] = "done" => result[i] = "false"
            /\ calls[i].onError <= 1)
  /\ [][\A i \in Invocations :
          ( /\ kind[i] = "queue" /\ firedAt[i] >= 0
            /\ task[i] = "handler" /\ task'[i] # "handler" ) =>
            /\ task'[i] \in {"returned", "threw"}
            /\ race'[i] = race[i]
            /\ result'[i] = result[i]
            /\ calls'[i] = calls[i]
            /\ pc'[i] = pc[i]]_vars

C27_Witness ==
  /\ kind[1] = "queue" /\ pc[1] = "done" /\ result[1] = "false"
  /\ firedAt[1] >= 0 /\ error[1] = "timeout"
  /\ plan[1].out = "return" /\ task[1] = "returned"
  /\ hooks[1].onJobFinished = "return" /\ calls[1].onJobFinished = 0
  /\ hooks[1].onError = "return" /\ calls[1].onError = 1
  /\ calls[1].handler = 1

\* C28: when the route's timer wins the race of a socket message (it fires
\* before the handler has settled), onError is called exactly once if it is
\* defined, the reply is the error payload of the timeout, that reply is
\* handed to onMessageSent once if it is defined, and the handler's later
\* settlement changes neither the reply nor the hooks called.
C28_SocketTimeoutReply ==
  /\ [](\A i \in Invocations :
          (kind[i] = "socket" /\ firedAt[i] >= 0 /\ race[i] = "aborted") =>
            /\ calls[i].onError <= 1 /\ calls[i].onMessageSent <= 1
            /\ reply[i] \in {NoReply, ErrorReply(TimeoutErrorText)}
            /\ pc[i] = "done" =>
                 /\ error[i] = "timeout"
                 /\ reply[i] = ErrorReply(TimeoutErrorText)
                 /\ hooks[i].onError # "absent" => calls[i].onError = 1
                 /\ hooks[i].onMessageSent # "absent" =>
                      calls[i].onMessageSent = 1)
  /\ [][\A i \in Invocations :
          ( /\ kind[i] = "socket" /\ race[i] = "aborted"
            /\ task[i] = "handler" /\ task'[i] # "handler" ) =>
            /\ reply'[i] = reply[i] /\ calls'[i] = calls[i]
            /\ pc'[i] = pc[i] /\ error'[i] = error[i]]_vars

C28_Witness ==
  /\ kind[1] = "socket" /\ pc[1] = "done"
  /\ firedAt[1] >= 0 /\ race[1] = "aborted"
  /\ plan[1].out = "return" /\ task[1] = "returned"
  /\ value[1].type = "string" /\ value[1].body = << 72, 105 >>
  /\ calls[1].handler = 1
  /\ hooks[1].onError = "return" /\ calls[1].onError = 1
  /\ hooks[1].onMessageSent = "return" /\ calls[1].onMessageSent = 1
  /\ reply[1] = ErrorReply(TimeoutErrorText)

\* C29: a socket message for which findRoute failed is answered with
\* exactly {"error":"Not available"} and no handler is called, whatever
\* the common middleware's onError does.
C29_RouteFailureReply ==
  \A i \in Invocations :
    (kind[i] = "socket" /\ error[i] = "route" /\ pc[i] = "done") =>
      /\ calls[i].handler = 0
      /\ reply[i] = ErrorReply(NotAvailable)

\* C30: an invocation that armed its abort timer (a queue job past the
\* budget check, a socket message with a route) and has returned has
\* cleared the timer and aborted its signal, however it ended; and no timer
\* of an invocation that has returned fires.
C30_TimerClearedSignalAborted ==
  /\ [](\A i \in Invocations :
          ( /\ kind[i] \in {"queue", "socket"} /\ pc[i] = "done"
            /\ args[i].known
            /\ kind[i] = "queue" =>
                 ~BudgetExhausted(JobTimeout(args[i].timeout,
                                             args[i].remainingTime)) )
          => abortTimeout[i] < 0 /\ aborted[i])
  /\ [][\A i \in Invocations :
          pc[i] = "done" =>
            /\ firedAt'[i] = firedAt[i]
            /\ aborted'[i] = aborted[i]]_vars

C30_Witness ==
  /\ kind[1] = "queue" /\ pc[1] = "done" /\ result[1] = "false"
  /\ error[1] = "thrown" /\ plan[1].out = "throw" /\ calls[1].handler = 1
  /\ firedAt[1] < 0 /\ abortTimeout[1] < 0 /\ aborted[1]

\* C31: for a queue job that passed the budget check, onError is never
\* called twice; when handleQueuedJob has returned false a defined onError
\* was called exactly once, and when it has returned true onError was not
\* called.
C31_OnErrorExactlyOnce ==
  \A i \in Invocations :
    ( /\ kind[i] = "queue" /\ args[i].known
      /\ ~BudgetExhausted(JobTimeout(args[i].timeout, args[i].remainingTime)) )
    => /\ calls[i].onError <= 1
       /\ (pc[i] = "done" /\ result[i] = "false") =>
            calls[i].onError = IF hooks[i].onError = "absent" THEN 0 ELSE 1
       /\ (pc[i] = "done" /\ result[i] = "true") => calls[i].onError = 0
       /\ pc[i] = "done" => result[i] \in {"true", "false"}

C31_Witness ==
  /\ kind[1] = "queue" /\ pc[1] = "done" /\ result[1] = "false"
  /\ hooks[1].onJobFinished = "throw" /\ calls[1].onJobFinished = 1
  /\ hooks[1].onError = "return" /\ calls[1].onError = 1
  /\ firedAt[1] < 0

\* C32: handleWebSocketMessage never rejects: whenever it has settled, for a
\* message without a route, a body that does not parse, a handler that
\* throws or times out, or hooks that throw, what it resolved to is a
\* Buffer or null.
C32_MessageNeverRejects ==
  \A i \in Invocations :
    kind[i] = "socket" =>
      /\ reply[i].type \in {"none", "Buffer", "null"}
      /\ pc[i] = "done" => reply[i].type \in {"Buffer", "null"}

C32_Witness ==
  /\ kind[1] = "socket" /\ pc[1] = "done" /\ error[1] = "route"
  /\ commonMiddleware.onError = "throw" /\ calls[1].onError = 1
  /\ reply[1].type = "Buffer" /\ reply[1] = ErrorReply(HookErrorText)

C36_FailedReloadKeepsLoaded ==
  [][fn'.reloads # fn.reloads =>
       /\ fn'.pc = "loaded" /\ fn'.watch
       /\ fn'.failure # "none" => fn'.loaded = fn.loaded
       /\ fn'.failure = "none" =>
            /\ fn'.loaded.handler = [kind |-> "function",
                                     version |-> fn'.module.version]
            /\ fn'.loaded.config.version = fn'.module.version]_vars

C36_Witness ==
  /\ fn.pc = "loaded" /\ fn.watch /\ fn.reloads = 1
  /\ fn.failure = "config" /\ fn.module.config = "string"
  /\ fn.module.version = 2
  /\ fn.loaded = fn.born /\ fn.loaded.handler.version = 1

\* C34: at most one newWorker call is between acquiring and releasing the
\* build semaphore, the permit is either free or held by that call, and at
\* most one forked worker is building.
C34_OneBuildAtATime ==
  LET holders == {c \in 1..Len(dev.calls) :
                    dev.calls[c].pc \in {"await", "threw"}}
      building == {w \in 1..Len(dev.workers) :
                     dev.workers[w].state = "building"}
  IN  /\ Cardinality(holders) <= 1
      /\ Cardinality(building) <= 1
      /\ dev.sema + Cardinality(holders) = BuildPermits
      /\ \A w \in building : \E c \in holders : dev.calls[c].worker = w

C34_Witness ==
  /\ Len(dev.calls) = 3
  /\ dev.calls[1].pc = "done" /\ dev.calls[2].pc = "await"
  /\ dev.calls[3].pc = "acquire"
  /\ dev.sema = 0
  /\ dev.workers[1].state = "ready" /\ ~dev.workers[1].connected
  /\ dev.workers[2].state = "building"

\* The newWorker call c holds the build semaphore.
C35_Holds(c) ==
  Len(dev.calls) >= c /\ dev.calls[c].pc \in {"await", "threw"}

\* The newWorker call c has given the build semaphore back.
C35_Released(c) ==
  Len(dev.calls) >= c /\ dev.calls[c].pc = "done" /\ dev.sema > 0

\* C35: every newWorker call that acquires the build semaphore eventually
\* releases it, when every forked worker reports "ready" or exits.
C35_SemaphoreIsReleased ==
  \A c \in 1..MaxCalls : C35_Holds(c) ~> C35_Released(c)

\* The status the call of deployStack found ends with _IN_PROGRESS.
C37_AlreadyChanging ==
  \E n \in 1..3 :
    /\ Len(stack.initial) = n + 2
    /\ stack.initial[n + 1] = "IN" /\ stack.initial[n + 2] = "PROGRESS"

\* C37: a call of deployStack that finds the stack with a status that ends
\* with _IN_PROGRESS fails and creates and executes no change set; a call
\* returns the change set's id only after it executed the change set and
\* read a final status of UPDATE_COMPLETE or CREATE_COMPLETE, and executes
\* no more than one change set.
C37_NoSecondUpdate ==
  /\ stack.deploys > 0 /\ C37_AlreadyChanging
       => /\ stack.pc = "done" /\ stack.result = "threw"
          /\ stack.created = 0 /\ stack.executed = 0
  /\ stack.result = "id"
       => /\ stack.final \in {<< "UPDATE", "COMPLETE" >>,
                              << "CREATE", "COMPLETE" >>}
          /\ stack.executed = 1
  /\ stack.executed <= stack.created /\ stack.created <= 1

C37_Witness ==
  /\ stack.deploys = 2
  /\ stack.initial = << "UPDATE", "IN", "PROGRESS" >>
  /\ stack.result = "threw"
  /\ stack.created = 0
  /\ stack.status = << "UPDATE", "COMPLETE" >>

\* C38: deployLambda throws, before it builds, for every project name that
\* is not 1 to 40 letters, digits and dashes.
C38_InvalidNameIsRejected ==
  call.op = "deployLambda"
    => (call.outcome = "threw"
          <=> ~(/\ Len(call.input) >= 1 /\ Len(call.input) <= 40
                /\ \A i \in 1..Len(call.input) :
                     \/ call.input[i] = 45
                     \/ call.input[i] \in 48..57
                     \/ call.input[i] \in 65..90
                     \/ call.input[i] \in 97..122))

\* The segment as a parameter: [name] is :name, [...name] is :name*, and
\* any other segment is itself.
C39_Parameter(segment) ==
  LET n == Len(segment) IN
  IF n >= 3 /\ segment[1] = 91 /\ segment[n] = 93
  THEN IF n >= 6 /\ SubSeq(segment, 2, 4) = << 46, 46, 46 >>
       THEN << 58 >> \o SubSeq(segment, 5, n - 1) \o << 42 >>
       ELSE << 58 >> \o SubSeq(segment, 2, n - 1)
  ELSE segment

\* The path with each of its segments, the runs between slashes, as a
\* parameter.
RECURSIVE C39_EverySegment(_, _)
C39_EverySegment(path, segment) ==
  IF path = << >> THEN C39_Parameter(segment)
  ELSE IF Head(path) = 47
  THEN C39_Parameter(segment) \o << 47 >> \o C39_EverySegment(Tail(path), << >>)
  ELSE C39_EverySegment(Tail(path), Append(segment, Head(path)))

\* C39: replaceBracket turns every bracket segment of the path into a
\* parameter, wherever it is, and leaves the other segments as they are.
C39_EveryBracketSegmentReplaced ==
  call.op = "url" => call.output = C39_EverySegment(call.input, << >>)

====
